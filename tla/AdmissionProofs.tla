-------------------------- MODULE AdmissionProofs --------------------------
(***************************************************************************)
(* The safety of admission, and that it implements the order-of-arrival    *)
(* slots it promises, for every set of requests, chains and advertisements.*)
(*                                                                         *)
(* The inductive invariant is Queue - the types, who is in line            *)
(* (LineIsServed) and in which order (LineInOrder) - with, added one at a  *)
(* time, OutagesAreTimed, NobodyStranded and SlotsAccounted, none of which *)
(* needs the others.  Each step either broadcasts, after which             *)
(* nobody is asleep, or leaves alone everything a sleeper waits for.       *)
(***************************************************************************)
EXTENDS Admission, PoolMap, FiniteSetTheorems, TLAPS

\* The line: tickets are dealt in order, no two alike, and only to requests
\* whose pools are all configured.
LineInOrder ==
  /\ \A r \in Requests : ticket[r] < nextTicket
  /\ \A r, q \in Requests : InLine(r) /\ ticket[r] = ticket[q] => r = q
  /\ \A r \in Requests :
       request[r] \in {"awake", "asleep", "holding"} => Chain[r] \subseteq known

Queue == TypeOK /\ LineIsServed /\ LineInOrder

-----------------------------------------------------------------------------
(* The steps, sorted by what they do.                                      *)

\* Requests that change places in a step, and what else they may change.
Steps ==
  \/ \E m \in Adverts : Configure(m)
  \/ MarkUnavailable
  \/ Tick
  \/ \E r \in Requests :
       \/ Refuse(r) \/ JoinAndEnter(r) \/ JoinAndGiveUp(r) \/ JoinAndSleep(r)
       \/ Admit(r) \/ GiveUp(r) \/ SleepAgain(r) \/ WakeUp(r) \/ Cancel(r)
       \/ Release(r)
  \/ UNCHANGED vars

LEMMA NextSteps == [Next]_vars <=> Steps
  BY DEF Next, Steps, Acquire, Look, ReleaseAgain

\* A broadcast leaves nobody asleep, and otherwise changes only r.
LEMMA Broadcasting ==
  ASSUME TypeOK, NEW r \in Requests, NEW s \in RequestStates, Broadcast(r, s)
  PROVE  /\ request' \in [Requests -> RequestStates]
         /\ request'[r] = s
         /\ \A q \in Requests \ {r} :
              request'[q] = IF request[q] = "asleep" THEN "awake" ELSE request[q]
  BY DEF TypeOK, Broadcast, RequestStates

LEMMA BroadcastingAll ==
  ASSUME TypeOK, BroadcastAll
  PROVE  /\ request' \in [Requests -> RequestStates]
         /\ \A q \in Requests :
              request'[q] = IF request[q] = "asleep" THEN "awake" ELSE request[q]
  BY DEF TypeOK, BroadcastAll, RequestStates

-----------------------------------------------------------------------------
LEMMA InitQueue == Init => Queue
  BY GraceNat DEF Init, Queue, TypeOK, LineIsServed, LineInOrder, InLine, RequestStates

LEMMA StepTypeOK == TypeOK /\ [Next]_vars => TypeOK'
  <1> SUFFICES ASSUME TypeOK, Steps PROVE TypeOK'
    BY NextSteps
  <1> USE DEF TypeOK
  <1>1. ASSUME NEW m \in Adverts, Configure(m) PROVE TypeOK'
    <2>1. request' \in [Requests -> RequestStates]
      BY <1>1, BroadcastingAll DEF Configure
    <2>2. DOMAIN m \subseteq Pools /\ \A p \in DOMAIN m : m[p] \in Nat
      BY AdvertsOfPools
    <2> QED
      BY <1>1, <2>1, <2>2, GraceNat DEF Configure, line
  <1>2. CASE MarkUnavailable
    <2>1. request' \in [Requests -> RequestStates]
      BY <1>2, BroadcastingAll DEF MarkUnavailable
    <2>2. outages' \in Nat
      BY <1>2 DEF MarkUnavailable
    <2> QED
      BY <1>2, <2>1, <2>2 DEF MarkUnavailable, line, pools
  <1>3. CASE Tick
    BY <1>3, GraceNat DEF Tick, line, pools
  <1>4. ASSUME NEW r \in Requests, Refuse(r) PROVE TypeOK'
    BY <1>4 DEF Refuse, line, pools, clock, RequestStates
  <1>5. ASSUME NEW r \in Requests, JoinAndEnter(r) PROVE TypeOK'
    <2>1. request' \in [Requests -> RequestStates]
      BY <1>5, Broadcasting DEF JoinAndEnter, RequestStates
    <2> QED
      BY <1>5, <2>1 DEF JoinAndEnter, Take, pools, clock
  <1>6. ASSUME NEW r \in Requests, JoinAndGiveUp(r) PROVE TypeOK'
    <2>1. request' \in [Requests -> RequestStates]
      BY <1>6, Broadcasting DEF JoinAndGiveUp, RequestStates
    <2> QED
      BY <1>6, <2>1 DEF JoinAndGiveUp, pools, clock
  <1>7. ASSUME NEW r \in Requests, JoinAndSleep(r) PROVE TypeOK'
    BY <1>7 DEF JoinAndSleep, Sleep, pools, clock, RequestStates
  <1>8. ASSUME NEW r \in Requests, Admit(r) PROVE TypeOK'
    <2>1. request' \in [Requests -> RequestStates]
      BY <1>8, Broadcasting DEF Admit, RequestStates
    <2>2. active' \in [Pools -> Nat]
      BY <1>8 DEF Admit, Take
    <2> QED
      BY <1>8, <2>1, <2>2 DEF Admit, LeaveLine, pools, clock
  <1>9. ASSUME NEW r \in Requests, GiveUp(r) PROVE TypeOK'
    <2>1. request' \in [Requests -> RequestStates]
      BY <1>9, Broadcasting DEF GiveUp, RequestStates
    <2> QED
      BY <1>9, <2>1 DEF GiveUp, LeaveLine, pools, clock
  <1>10. ASSUME NEW r \in Requests, SleepAgain(r) PROVE TypeOK'
    BY <1>10 DEF SleepAgain, Sleep, pools, line, clock, RequestStates
  <1>11. ASSUME NEW r \in Requests, WakeUp(r) PROVE TypeOK'
    BY <1>11 DEF WakeUp, pools, line, clock, RequestStates
  <1>12. ASSUME NEW r \in Requests, Cancel(r) PROVE TypeOK'
    BY <1>12 DEF Cancel, pools, line, clock
  <1>13. ASSUME NEW r \in Requests, Release(r) PROVE TypeOK'
    <2>1. request' \in [Requests -> RequestStates]
      BY <1>13, Broadcasting DEF Release, RequestStates
    <2> QED
      BY <1>13, <2>1 DEF Release, GiveBack, pools, line, clock
  <1>14. CASE UNCHANGED vars
    BY <1>14 DEF vars, pools, line, clock
  <1> QED
    BY <1>1, <1>2, <1>3, <1>4, <1>5, <1>6, <1>7, <1>8, <1>9, <1>10, <1>11, <1>12,
       <1>13, <1>14 DEF Steps

\* The state of admission keeps its types: no pool's count of slots, however
\* often capacities change and permits are released, goes below zero.
THEOREM TypeCorrect == Spec => []TypeOK
  <1>1. Init => TypeOK
    BY InitQueue DEF Queue
  <1> QED
    BY <1>1, StepTypeOK, PTL DEF Spec

-----------------------------------------------------------------------------
(* The line.                                                               *)

\* Whoever joins sleeps or is through; whoever leaves the line does so awake.
LEMMA StepServed ==
  Queue /\ [Next]_vars => LineIsServed'
  <1> SUFFICES ASSUME Queue, Steps PROVE LineIsServed'
    BY NextSteps
  <1>0. TypeOK /\ LineIsServed /\ LineInOrder
    BY DEF Queue
  <1> USE DEF LineIsServed, InLine
  <1>1. ASSUME NEW m \in Adverts, Configure(m) PROVE LineIsServed'
    BY <1>0, <1>1, BroadcastingAll DEF Configure, line
  <1>2. CASE MarkUnavailable
    BY <1>0, <1>2, BroadcastingAll DEF MarkUnavailable, line, pools
  <1>3. CASE Tick
    BY <1>0, <1>3 DEF Tick, line, pools
  <1>4. ASSUME NEW r \in Requests, Refuse(r) PROVE LineIsServed'
    BY <1>0, <1>4 DEF Refuse, line, pools, TypeOK
  <1>5. ASSUME NEW r \in Requests, JoinAndEnter(r) PROVE LineIsServed'
    BY <1>0, <1>5, Broadcasting DEF JoinAndEnter, pools, TypeOK, RequestStates
  <1>6. ASSUME NEW r \in Requests, JoinAndGiveUp(r) PROVE LineIsServed'
    BY <1>0, <1>6, Broadcasting DEF JoinAndGiveUp, pools, TypeOK, RequestStates
  <1>7. ASSUME NEW r \in Requests, JoinAndSleep(r) PROVE LineIsServed'
    BY <1>0, <1>7 DEF JoinAndSleep, Sleep, pools, TypeOK
  <1>8. ASSUME NEW r \in Requests, Admit(r) PROVE LineIsServed'
    BY <1>0, <1>8, Broadcasting DEF Admit, NextUp, LeaveLine, pools, TypeOK, RequestStates
  <1>9. ASSUME NEW r \in Requests, GiveUp(r) PROVE LineIsServed'
    BY <1>0, <1>9, Broadcasting DEF GiveUp, LeaveLine, pools, TypeOK, RequestStates
  <1>10. ASSUME NEW r \in Requests, SleepAgain(r) PROVE LineIsServed'
    BY <1>0, <1>10 DEF SleepAgain, Sleep, line, pools, TypeOK
  <1>11. ASSUME NEW r \in Requests, WakeUp(r) PROVE LineIsServed'
    BY <1>0, <1>11 DEF WakeUp, line, pools, TypeOK
  <1>12. ASSUME NEW r \in Requests, Cancel(r) PROVE LineIsServed'
    BY <1>0, <1>12 DEF Cancel, line, pools, TypeOK
  <1>13. ASSUME NEW r \in Requests, Release(r) PROVE LineIsServed'
    BY <1>0, <1>13, Broadcasting DEF Release, line, pools, TypeOK, RequestStates
  <1>14. CASE UNCHANGED vars
    BY <1>0, <1>14 DEF vars, line, pools
  <1> QED
    BY <1>1, <1>2, <1>3, <1>4, <1>5, <1>6, <1>7, <1>8, <1>9, <1>10, <1>11, <1>12, <1>13, <1>14 DEF Steps

\* Tickets grow; a request is past the check of its pools when it joins, and pools
\* are never forgotten.
LEMMA StepOrder ==
  Queue /\ [Next]_vars => LineInOrder'
  <1> SUFFICES ASSUME Queue, Steps PROVE LineInOrder'
    BY NextSteps
  <1>0. TypeOK /\ LineIsServed /\ LineInOrder
    BY DEF Queue
  <1> USE DEF LineInOrder, InLine
  <1>1. ASSUME NEW m \in Adverts, Configure(m) PROVE LineInOrder'
    BY <1>0, <1>1, BroadcastingAll DEF Configure, line
  <1>2. CASE MarkUnavailable
    BY <1>0, <1>2, BroadcastingAll DEF MarkUnavailable, line, pools
  <1>3. CASE Tick
    BY <1>0, <1>3 DEF Tick, line, pools
  <1>4. ASSUME NEW r \in Requests, Refuse(r) PROVE LineInOrder'
    BY <1>0, <1>4 DEF Refuse, line, pools, TypeOK
  <1>5. ASSUME NEW r \in Requests, JoinAndEnter(r) PROVE LineInOrder'
    BY <1>0, <1>5, Broadcasting DEF JoinAndEnter, pools, TypeOK, RequestStates
  <1>6. ASSUME NEW r \in Requests, JoinAndGiveUp(r) PROVE LineInOrder'
    BY <1>0, <1>6, Broadcasting DEF JoinAndGiveUp, pools, TypeOK, RequestStates
  <1>7. ASSUME NEW r \in Requests, JoinAndSleep(r) PROVE LineInOrder'
    BY <1>0, <1>7 DEF JoinAndSleep, Sleep, pools, TypeOK
  <1>8. ASSUME NEW r \in Requests, Admit(r) PROVE LineInOrder'
    BY <1>0, <1>8, Broadcasting DEF Admit, NextUp, LeaveLine, pools, TypeOK, RequestStates
  <1>9. ASSUME NEW r \in Requests, GiveUp(r) PROVE LineInOrder'
    BY <1>0, <1>9, Broadcasting DEF GiveUp, LeaveLine, pools, TypeOK, RequestStates
  <1>10. ASSUME NEW r \in Requests, SleepAgain(r) PROVE LineInOrder'
    BY <1>0, <1>10 DEF SleepAgain, Sleep, line, pools, TypeOK
  <1>11. ASSUME NEW r \in Requests, WakeUp(r) PROVE LineInOrder'
    BY <1>0, <1>11 DEF WakeUp, line, pools, TypeOK
  <1>12. ASSUME NEW r \in Requests, Cancel(r) PROVE LineInOrder'
    BY <1>0, <1>12 DEF Cancel, line, pools, TypeOK
  <1>13. ASSUME NEW r \in Requests, Release(r) PROVE LineInOrder'
    BY <1>0, <1>13, Broadcasting DEF Release, line, pools, TypeOK, RequestStates
  <1>14. CASE UNCHANGED vars
    BY <1>0, <1>14 DEF vars, line, pools
  <1> QED
    BY <1>1, <1>2, <1>3, <1>4, <1>5, <1>6, <1>7, <1>8, <1>9, <1>10, <1>11, <1>12, <1>13, <1>14 DEF Steps

LEMMA StepQueue == Queue /\ [Next]_vars => Queue'
  BY StepTypeOK, StepServed, StepOrder DEF Queue

\* A request in line is one whose thread will take its turn: every path out of
\* acquire leaves the line behind it.
THEOREM Served == Spec => []LineIsServed
  <1>1. Queue => LineIsServed
    BY DEF Queue
  <1> QED
    BY <1>1, InitQueue, StepQueue, PTL DEF Spec

-----------------------------------------------------------------------------
(* Who may be asleep.                                                      *)

\* After a broadcast nobody is asleep.
LEMMA NobodyAsleep ==
  ASSUME TypeOK,
         \/ BroadcastAll
         \/ \E r \in Requests, s \in RequestStates \ {"asleep"} : Broadcast(r, s)
  PROVE  \A q \in Requests : request'[q] # "asleep"
  BY DEF TypeOK, BroadcastAll, Broadcast, RequestStates

\* Whoever falls asleep in an outage has a time limit, and an outage wakes whoever
\* was asleep before it.
LEMMA StepTimed ==
  Queue /\ OutagesAreTimed /\ [Next]_vars => OutagesAreTimed'
  <1> SUFFICES ASSUME Queue, OutagesAreTimed, Steps PROVE OutagesAreTimed'
    BY NextSteps
  <1>0. TypeOK /\ LineIsServed /\ LineInOrder
    BY DEF Queue
  <1>1. ASSUME NEW m \in Adverts, Configure(m) PROVE OutagesAreTimed'
    BY <1>0, <1>1, NobodyAsleep DEF Configure, OutagesAreTimed
  <1>2. CASE MarkUnavailable
    BY <1>0, <1>2, NobodyAsleep DEF MarkUnavailable, OutagesAreTimed
  <1>3. CASE Tick
    BY <1>3 DEF Tick, OutagesAreTimed
  <1>4. ASSUME NEW r \in Requests, Refuse(r) PROVE OutagesAreTimed'
    BY <1>0, <1>4 DEF line, pools, clock, Refuse, OutagesAreTimed, TypeOK
  <1>5. ASSUME NEW r \in Requests, JoinAndEnter(r) PROVE OutagesAreTimed'
    BY <1>0, <1>5, NobodyAsleep DEF JoinAndEnter, OutagesAreTimed, RequestStates
  <1>6. ASSUME NEW r \in Requests, JoinAndGiveUp(r) PROVE OutagesAreTimed'
    BY <1>0, <1>6, NobodyAsleep DEF JoinAndGiveUp, OutagesAreTimed, RequestStates
  <1>7. ASSUME NEW r \in Requests, JoinAndSleep(r) PROVE OutagesAreTimed'
    BY <1>0, <1>7 DEF JoinAndSleep, Sleep, OutagesAreTimed, TypeOK, clock
  <1>8. ASSUME NEW r \in Requests, Admit(r) PROVE OutagesAreTimed'
    BY <1>0, <1>8, NobodyAsleep DEF Admit, OutagesAreTimed, RequestStates
  <1>9. ASSUME NEW r \in Requests, GiveUp(r) PROVE OutagesAreTimed'
    BY <1>0, <1>9, NobodyAsleep DEF GiveUp, OutagesAreTimed, RequestStates
  <1>10. ASSUME NEW r \in Requests, SleepAgain(r) PROVE OutagesAreTimed'
    BY <1>0, <1>10 DEF SleepAgain, Sleep, OutagesAreTimed, TypeOK, clock
  <1>11. ASSUME NEW r \in Requests, WakeUp(r) PROVE OutagesAreTimed'
    BY <1>0, <1>11 DEF line, pools, clock, WakeUp, OutagesAreTimed, TypeOK
  <1>12. ASSUME NEW r \in Requests, Cancel(r) PROVE OutagesAreTimed'
    BY <1>0, <1>12 DEF line, pools, clock, Cancel, OutagesAreTimed, TypeOK
  <1>13. ASSUME NEW r \in Requests, Release(r) PROVE OutagesAreTimed'
    BY <1>0, <1>13, NobodyAsleep DEF Release, OutagesAreTimed, RequestStates
  <1>14. CASE UNCHANGED vars
    BY <1>14 DEF vars, line, pools, clock, OutagesAreTimed, NextUp, InLine, HasRoom
  <1> QED
    BY <1>1, <1>2, <1>3, <1>4, <1>5, <1>6, <1>7, <1>8, <1>9, <1>10, <1>11, <1>12, <1>13, <1>14 DEF Steps

\* Every step that makes it somebody's turn broadcasts; a newcomer that sleeps is
\* last in line.
LEMMA StepStranded ==
  Queue /\ NobodyStranded /\ [Next]_vars => NobodyStranded'
  <1> SUFFICES ASSUME Queue, NobodyStranded, Steps PROVE NobodyStranded'
    BY NextSteps
  <1>0. TypeOK /\ LineIsServed /\ LineInOrder
    BY DEF Queue
  <1>1. ASSUME NEW m \in Adverts, Configure(m) PROVE NobodyStranded'
    BY <1>0, <1>1, NobodyAsleep DEF Configure, NobodyStranded
  <1>2. CASE MarkUnavailable
    BY <1>0, <1>2, NobodyAsleep DEF MarkUnavailable, NobodyStranded
  <1>3. CASE Tick
    BY <1>3 DEF Tick, NobodyStranded
  <1>4. ASSUME NEW r \in Requests, Refuse(r) PROVE NobodyStranded'
    BY <1>0, <1>4 DEF line, pools, clock, Refuse, NobodyStranded, NextUp, InLine, HasRoom, TypeOK
  <1>5. ASSUME NEW r \in Requests, JoinAndEnter(r) PROVE NobodyStranded'
    BY <1>0, <1>5, NobodyAsleep DEF JoinAndEnter, NobodyStranded, RequestStates
  <1>6. ASSUME NEW r \in Requests, JoinAndGiveUp(r) PROVE NobodyStranded'
    BY <1>0, <1>6, NobodyAsleep DEF JoinAndGiveUp, NobodyStranded, RequestStates
  <1>7. ASSUME NEW r \in Requests, JoinAndSleep(r) PROVE NobodyStranded'
    <2>1. CASE ~available
      BY <2>1, <1>7 DEF JoinAndSleep, NobodyStranded, clock
    <2>2. CASE available
      <3>1. \A q \in Requests : HasRoom(q)' <=> HasRoom(q)
        BY <1>7 DEF JoinAndSleep, HasRoom, pools
      <3>2. /\ ~InLine(r)
            /\ \A q \in Requests \ {r} : ticket'[q] = ticket[q]
            /\ ticket'[r] = nextTicket
        BY <1>0, <1>7 DEF JoinAndSleep, LineIsServed, TypeOK
      <3>3. ~NextUp(r)'
        <4>1. CASE ~HasRoom(r)
          BY <3>1, <4>1 DEF NextUp
        <4>2. CASE \E q \in Requests : InLine(q) /\ HasRoom(q)
          <5>1. PICK q \in Requests : InLine(q) /\ HasRoom(q)
            BY <4>2
          <5>2. q # r /\ ticket'[q] = ticket[q] /\ ticket[q] > 0 /\ ticket[q] < nextTicket
            BY <1>0, <3>2, <5>1 DEF InLine, LineInOrder
          <5>3. InLine(q)' /\ HasRoom(q)'
            BY <3>1, <5>1, <5>2 DEF InLine
          <5>4. ticket[q] \in Nat /\ nextTicket \in Nat
            BY <1>0 DEF TypeOK
          <5>5. ~(ticket'[r] <= ticket'[q])
            BY <3>2, <5>2, <5>4
          <5> QED
            BY <5>3, <5>5 DEF NextUp
        <4> QED
          BY <2>2, <1>7, <4>1, <4>2 DEF JoinAndSleep
      <3>4. ASSUME NEW q \in Requests \ {r}, NextUp(q)' PROVE NextUp(q)
        <4>1. InLine(q) /\ HasRoom(q)
          BY <3>1, <3>2, <3>4 DEF NextUp, InLine
        <4>2. ASSUME NEW s \in Requests, InLine(s), HasRoom(s) PROVE ticket[q] <= ticket[s]
          <5>1. s # r
            BY <3>2, <4>2
          <5>2. InLine(s)' /\ HasRoom(s)' /\ ticket'[s] = ticket[s]
            BY <3>1, <3>2, <4>2, <5>1 DEF InLine
          <5> QED
            BY <3>2, <3>4, <5>2 DEF NextUp
        <4> QED
          BY <4>1, <4>2 DEF NextUp
      <3>5. \A q \in Requests \ {r} :
              request'[q] = request[q] /\ (q \in deadline' <=> q \in deadline)
        BY <1>0, <1>7 DEF JoinAndSleep, Sleep, TypeOK
      <3> QED
        BY <2>2, <3>3, <3>4, <3>5 DEF NobodyStranded
    <2> QED
      BY <2>1, <2>2
  <1>8. ASSUME NEW r \in Requests, Admit(r) PROVE NobodyStranded'
    BY <1>0, <1>8, NobodyAsleep DEF Admit, NobodyStranded, RequestStates
  <1>9. ASSUME NEW r \in Requests, GiveUp(r) PROVE NobodyStranded'
    BY <1>0, <1>9, NobodyAsleep DEF GiveUp, NobodyStranded, RequestStates
  <1>10. ASSUME NEW r \in Requests, SleepAgain(r) PROVE NobodyStranded'
    <2>1. CASE ~available
      BY <2>1, <1>10 DEF SleepAgain, NobodyStranded, clock
    <2>2. CASE available
      <3>1. \A q \in Requests : NextUp(q)' <=> NextUp(q)
        BY <1>10 DEF SleepAgain, NextUp, InLine, HasRoom, pools, line
      <3>2. ~NextUp(r)
        BY <1>10, <2>2 DEF SleepAgain
      <3>3. \A q \in Requests \ {r} :
              request'[q] = request[q] /\ (q \in deadline' <=> q \in deadline)
        BY <1>0, <1>10 DEF SleepAgain, Sleep, TypeOK
      <3> QED
        BY <2>2, <3>1, <3>2, <3>3 DEF NobodyStranded
    <2> QED
      BY <2>1, <2>2
  <1>11. ASSUME NEW r \in Requests, WakeUp(r) PROVE NobodyStranded'
    BY <1>0, <1>11 DEF line, pools, clock, WakeUp, NobodyStranded, NextUp, InLine, HasRoom, TypeOK
  <1>12. ASSUME NEW r \in Requests, Cancel(r) PROVE NobodyStranded'
    BY <1>0, <1>12 DEF line, pools, clock, Cancel, NobodyStranded, NextUp, InLine, HasRoom, TypeOK
  <1>13. ASSUME NEW r \in Requests, Release(r) PROVE NobodyStranded'
    BY <1>0, <1>13, NobodyAsleep DEF Release, NobodyStranded, RequestStates
  <1>14. CASE UNCHANGED vars
    BY <1>14 DEF vars, line, pools, clock, NobodyStranded, NextUp, InLine, HasRoom
  <1> QED
    BY <1>1, <1>2, <1>3, <1>4, <1>5, <1>6, <1>7, <1>8, <1>9, <1>10, <1>11, <1>12, <1>13, <1>14 DEF Steps

\* Nobody sleeps through an outage without a time limit, so the grace window
\* measures the outage for everybody in line.
THEOREM Timed == Spec => []OutagesAreTimed
  <1>1. Init => OutagesAreTimed
    BY DEF Init, OutagesAreTimed
  <1> QED
    BY <1>1, InitQueue, StepQueue, StepTimed, PTL DEF Spec

\* The request whose turn it is has been woken, whoever made it its turn: a slot
\* given back, a waiter that left, an admission, a new capacity.
THEOREM NotStranded == Spec => []NobodyStranded
  <1>1. Init => NobodyStranded
    BY DEF Init, NobodyStranded, NextUp, InLine
  <1> QED
    BY <1>1, InitQueue, StepQueue, StepStranded, PTL DEF Spec

-----------------------------------------------------------------------------
(* The slots.                                                              *)

\* The requests that hold a slot of p.
Users(p) == {r \in Holding : p \in Chain[r]}

LEMMA UsersFinite ==
  \A p \in Pools : /\ IsFiniteSet(Users(p)) /\ Cardinality(Users(p)) \in Nat
                   /\ IsFiniteSet(Users(p)')
  <1> TAKE p \in Pools
  <1>1. Users(p) \subseteq Requests /\ Users(p)' \subseteq Requests
    BY DEF Users, Holding
  <1> QED
    BY <1>1, RequestsFinite, FS_Subset, FS_CardinalityType

\* A step that moves nobody in or out of a permit leaves the accounts alone.
LEMMA SameHolders ==
  ASSUME SlotsAccounted, Holding' = Holding, active' = active
  PROVE  SlotsAccounted'
  BY DEF SlotsAccounted

LEMMA TakenOnce ==
  ASSUME TypeOK, SlotsAccounted, NEW r \in Requests, r \notin Holding,
         Holding' = Holding \cup {r}, Take(r)
  PROVE  SlotsAccounted'
  <1> SUFFICES ASSUME NEW p \in Pools PROVE active'[p] = Cardinality(Users(p)')
    BY DEF SlotsAccounted, Users
  <1>1. active[p] = Cardinality(Users(p))
    BY DEF SlotsAccounted, Users
  <1>2. CASE p \in Chain[r]
    <2>1. Users(p)' = Users(p) \cup {r} /\ r \notin Users(p)
      BY <1>2 DEF Users
    <2>2. Cardinality(Users(p)') = Cardinality(Users(p)) + 1
      BY <2>1, UsersFinite, FS_AddElement
    <2>3. active'[p] = active[p] + 1
      BY <1>2 DEF Take
    <2> QED
      BY <1>1, <2>2, <2>3
  <1>3. CASE p \notin Chain[r]
    <2>1. Users(p)' = Users(p)
      BY <1>3 DEF Users
    <2>2. active'[p] = active[p]
      BY <1>3 DEF Take
    <2> QED
      BY <1>1, <2>1, <2>2
  <1> QED
    BY <1>2, <1>3

LEMMA GivenBackOnce ==
  ASSUME TypeOK, SlotsAccounted, NEW r \in Requests, r \in Holding,
         Holding' = Holding \ {r}, GiveBack(r)
  PROVE  SlotsAccounted'
  <1> SUFFICES ASSUME NEW p \in Pools PROVE active'[p] = Cardinality(Users(p)')
    BY DEF SlotsAccounted, Users
  <1>1. active[p] = Cardinality(Users(p))
    BY DEF SlotsAccounted, Users
  <1>2. CASE p \in Chain[r]
    <2>1. Users(p)' = Users(p) \ {r} /\ r \in Users(p)
      BY <1>2 DEF Users
    <2>2. Cardinality(Users(p)') = Cardinality(Users(p)) - 1
      BY <2>1, UsersFinite, FS_RemoveElement
    <2>3. active[p] > 0
      BY <1>1, <2>1, UsersFinite, FS_EmptySet
    <2>4. active'[p] = active[p] - 1
      BY <1>2, <2>3 DEF GiveBack
    <2> QED
      BY <1>1, <2>2, <2>4
  <1>3. CASE p \notin Chain[r]
    <2>1. Users(p)' = Users(p)
      BY <1>3 DEF Users
    <2>2. active'[p] = active[p]
      BY <1>3 DEF GiveBack
    <2> QED
      BY <1>1, <2>1, <2>2
  <1> QED
    BY <1>2, <1>3

\* What each step does to the set of holders and to the counts.
LEMMA Holders ==
  ASSUME Queue, [Next]_vars
  PROVE  \/ Holding' = Holding /\ active' = active
         \/ \E r \in Requests :
              /\ r \notin Holding /\ Holding' = Holding \cup {r}
              /\ JoinAndEnter(r) \/ Admit(r)
         \/ \E r \in Requests :
              r \in Holding /\ Holding' = Holding \ {r} /\ Release(r)
  <1> DEFINE Idle == Holding' = Holding /\ active' = active
             Entering == \E r \in Requests :
                           /\ r \notin Holding /\ Holding' = Holding \cup {r}
                           /\ JoinAndEnter(r) \/ Admit(r)
             Leaving == \E r \in Requests :
                          r \in Holding /\ Holding' = Holding \ {r} /\ Release(r)
  <1> SUFFICES ASSUME Steps PROVE Idle \/ Entering \/ Leaving
    BY NextSteps
  <1>0. TypeOK
    BY DEF Queue
  <1> USE DEF Holding
  <1>1. ASSUME NEW m \in Adverts, Configure(m) PROVE Idle
    BY <1>0, <1>1, BroadcastingAll DEF Configure
  <1>2. CASE MarkUnavailable
    BY <1>0, <1>2, BroadcastingAll DEF MarkUnavailable
  <1>3. CASE Tick
    BY <1>3 DEF Tick
  <1>4. ASSUME NEW r \in Requests, Refuse(r) PROVE Idle
    BY <1>0, <1>4 DEF Refuse, TypeOK
  <1>5. ASSUME NEW r \in Requests, JoinAndEnter(r) PROVE Entering
    <2>1. r \notin Holding /\ Holding' = Holding \cup {r}
      BY <1>0, <1>5, Broadcasting DEF JoinAndEnter, RequestStates
    <2> QED
      BY <1>5, <2>1
  <1>6. ASSUME NEW r \in Requests, JoinAndGiveUp(r) PROVE Idle
    BY <1>0, <1>6, Broadcasting DEF JoinAndGiveUp, RequestStates
  <1>7. ASSUME NEW r \in Requests, JoinAndSleep(r) PROVE Idle
    BY <1>0, <1>7 DEF JoinAndSleep, Sleep, TypeOK
  <1>8. ASSUME NEW r \in Requests, Admit(r) PROVE Entering
    <2>1. r \notin Holding /\ Holding' = Holding \cup {r}
      BY <1>0, <1>8, Broadcasting DEF Admit, RequestStates
    <2> QED
      BY <1>8, <2>1
  <1>9. ASSUME NEW r \in Requests, GiveUp(r) PROVE Idle
    BY <1>0, <1>9, Broadcasting DEF GiveUp, RequestStates
  <1>10. ASSUME NEW r \in Requests, SleepAgain(r) PROVE Idle
    BY <1>0, <1>10 DEF SleepAgain, Sleep, TypeOK
  <1>11. ASSUME NEW r \in Requests, WakeUp(r) PROVE Idle
    BY <1>0, <1>11 DEF WakeUp, TypeOK
  <1>12. ASSUME NEW r \in Requests, Cancel(r) PROVE Idle
    BY <1>12 DEF Cancel
  <1>13. ASSUME NEW r \in Requests, Release(r) PROVE Leaving
    <2>1. r \in Holding /\ Holding' = Holding \ {r}
      BY <1>0, <1>13, Broadcasting DEF Release, RequestStates
    <2> QED
      BY <1>13, <2>1
  <1>14. CASE UNCHANGED vars
    BY <1>14 DEF vars
  <1> HIDE DEF Idle, Entering, Leaving
  <1> QED
    BY <1>1, <1>2, <1>3, <1>4, <1>5, <1>6, <1>7, <1>8, <1>9, <1>10, <1>11, <1>12,
       <1>13, <1>14 DEF Steps

LEMMA StepSlots == Queue /\ SlotsAccounted /\ [Next]_vars => SlotsAccounted'
  <1> SUFFICES ASSUME Queue, SlotsAccounted, [Next]_vars PROVE SlotsAccounted'
    OBVIOUS
  <1>0. TypeOK
    BY DEF Queue
  <1>1. CASE Holding' = Holding /\ active' = active
    BY <1>1, SameHolders
  <1>2. ASSUME NEW r \in Requests, r \notin Holding, Holding' = Holding \cup {r},
               JoinAndEnter(r) \/ Admit(r)
        PROVE  SlotsAccounted'
    BY <1>0, <1>2, TakenOnce DEF JoinAndEnter, Admit
  <1>3. ASSUME NEW r \in Requests, r \in Holding, Holding' = Holding \ {r}, Release(r)
        PROVE  SlotsAccounted'
    BY <1>0, <1>3, GivenBackOnce DEF Release
  <1> QED
    BY <1>1, <1>2, <1>3, Holders

LEMMA InitSlots == Init => SlotsAccounted
  <1> SUFFICES ASSUME Init, NEW p \in Pools
               PROVE  active[p] = Cardinality(Users(p))
    BY DEF SlotsAccounted, Users
  <1>1. Users(p) = {}
    BY DEF Init, Users, Holding
  <1> QED
    BY <1>1, FS_EmptySet DEF Init

\* Slots are neither leaked nor given back twice, however dispatches are admitted,
\* cancelled, timed out and released, and whatever capacities become meanwhile.
THEOREM Accounted == Spec => []SlotsAccounted
  BY InitSlots, InitQueue, StepQueue, StepSlots, PTL DEF Spec

-----------------------------------------------------------------------------
(* Order of arrival.                                                       *)

\* Whoever needs no pool that r does not need has room whenever r has.
LEMMA RoomForLess ==
  ASSUME NEW r \in Requests, NEW q \in Requests, Chain[q] \subseteq Chain[r], HasRoom(r)
  PROVE  HasRoom(q)
  BY DEF HasRoom

\* Only the first in line with room is admitted, and a newcomer only past those
\* that have none.
LEMMA StepNoOvertaking ==
  ASSUME Queue, [Next]_vars,
         NEW r \in Requests, NEW q \in Requests,
         request[r] # "holding", request'[r] = "holding",
         InLine(q), InLine(r) => ticket[q] < ticket[r]
  PROVE  ~(Chain[q] \subseteq Chain[r])
  <1>1. TypeOK
    BY DEF Queue
  <1>2. r \notin Holding /\ r \in Holding'
    BY DEF Holding
  <1>3. JoinAndEnter(r) \/ Admit(r)
    BY <1>2, Holders
  <1>4. CASE JoinAndEnter(r)
    BY <1>4, RoomForLess DEF JoinAndEnter
  <1>5. CASE Admit(r)
    <2>1. InLine(r) /\ HasRoom(r) /\ (HasRoom(q) => ticket[r] <= ticket[q])
      BY <1>5 DEF Admit, NextUp
    <2>2. ticket[q] < ticket[r] /\ ticket[q] \in Nat /\ ticket[r] \in Nat
      BY <1>1, <2>1 DEF TypeOK
    <2> QED
      BY <2>1, <2>2, RoomForLess
  <1> QED
    BY <1>3, <1>4, <1>5

\* No request is admitted past one that arrived before it and needs no pool that
\* it does not need itself.
THEOREM InOrderOfArrival == Spec => NoOvertaking
  <1>1. Queue /\ [Next]_vars =>
          [\A r, q \in Requests :
             /\ request[r] # "holding" /\ request'[r] = "holding"
             /\ InLine(q) /\ (InLine(r) => ticket[q] < ticket[r])
             => ~(Chain[q] \subseteq Chain[r])]_vars
    BY StepNoOvertaking
  <1> QED
    BY <1>1, InitQueue, StepQueue, PTL DEF Spec, NoOvertaking

-----------------------------------------------------------------------------
(* The promise.                                                            *)

Waiting == {r \in Requests : InLine(r)}
Before(r) == {q \in Requests : InLine(q) /\ ticket[q] < ticket[r]}
Ahead == [r \in Requests |-> IF InLine(r) THEN Before(r) ELSE {}]

\* For a request past the check of its pools, room is what the promise says it is.
LEMMA FitsIsRoom ==
  ASSUME Queue, SlotsAccounted, NEW r \in Requests, Chain[r] \subseteq known
  PROVE  Promise!Fits(r) <=> HasRoom(r)
  <1>1. \A p \in Chain[r] : p \in Pools /\ p \in known
    BY ChainsOfPools
  <1>2. \A p \in Pools : Promise!Taken(p) = active[p]
    BY DEF SlotsAccounted, Promise!Taken, Cardinality, Promise!Cardinality
  <1> QED
    BY <1>1, <1>2 DEF Promise!Fits, HasRoom

LEMMA FitsInLine ==
  ASSUME Queue, SlotsAccounted, NEW r \in Requests, InLine(r)
  PROVE  Promise!Fits(r) <=> HasRoom(r)
  <1>1. Chain[r] \subseteq known
    BY DEF Queue, LineIsServed, LineInOrder
  <1> QED
    BY <1>1, FitsIsRoom

LEMMA LineUnmoved ==
  ASSUME ticket' = ticket PROVE Waiting' = Waiting /\ Ahead' = Ahead
  BY DEF Waiting, Ahead, Before, InLine

\* Leaving the line takes r from everybody's list of those before it.
LEMMA LineLeft ==
  ASSUME TypeOK, NEW r \in Requests, InLine(r), LeaveLine(r)
  PROVE  Promise!StepOut(r)
  <1>1. ticket'[r] = 0 /\ \A q \in Requests \ {r} : ticket'[q] = ticket[q]
    BY DEF LeaveLine, TypeOK
  <1>2. r \in Waiting /\ Waiting' = Waiting \ {r}
    BY <1>1 DEF Waiting, InLine
  <1>3. ASSUME NEW q \in Requests
        PROVE  Ahead'[q] = IF q = r THEN {} ELSE Ahead[q] \ {r}
    <2>1. CASE q = r
      BY <1>1, <2>1 DEF Ahead, InLine
    <2>2. CASE q # r
      <3>1. Before(q)' = Before(q) \ {r}
        BY <1>1, <2>2 DEF Before, InLine
      <3>2. InLine(q)' <=> InLine(q)
        BY <1>1, <2>2 DEF InLine
      <3> QED
        BY <2>2, <3>1, <3>2 DEF Ahead
    <2> QED
      BY <2>1, <2>2
  <1>4. Ahead' = [q \in Requests |-> IF q = r THEN {} ELSE Ahead[q] \ {r}]
    BY <1>3 DEF Ahead
  <1> QED
    BY <1>2, <1>4 DEF Promise!StepOut, Waiting, Ahead, Before

\* Whoever joins is behind everybody in line and before nobody.
LEMMA LineJoined ==
  ASSUME Queue, NEW r \in Requests, ~InLine(r),
         ticket' = [ticket EXCEPT ![r] = nextTicket]
  PROVE  Waiting' = Waiting \cup {r} /\ Ahead' = [Ahead EXCEPT ![r] = Waiting]
  <1>0. TypeOK /\ LineInOrder
    BY DEF Queue
  <1>1. /\ ticket'[r] = nextTicket /\ nextTicket \in Nat \ {0}
        /\ \A q \in Requests \ {r} : ticket'[q] = ticket[q]
        /\ \A q \in Requests : ticket[q] \in Nat /\ ticket[q] < nextTicket
    BY <1>0 DEF TypeOK, LineInOrder
  <1>2. Waiting' = Waiting \cup {r}
    BY <1>1 DEF Waiting, InLine
  <1>3. ASSUME NEW q \in Requests
        PROVE  Ahead'[q] = IF q = r THEN Waiting ELSE Ahead[q]
    <2>1. CASE q = r
      <3>1. Before(r)' = Waiting
        BY <1>1 DEF Before, Waiting, InLine
      <3> QED
        BY <1>1, <2>1, <3>1 DEF Ahead, InLine
    <2>2. CASE q # r
      <3>1. Before(q)' = Before(q)
        BY <1>1, <2>2 DEF Before, InLine
      <3>2. InLine(q)' <=> InLine(q)
        BY <1>1, <2>2 DEF InLine
      <3> QED
        BY <2>2, <3>1, <3>2 DEF Ahead
    <2> QED
      BY <2>1, <2>2
  <1>4. Ahead' = [Ahead EXCEPT ![r] = Waiting]
    BY <1>3 DEF Ahead
  <1> QED
    BY <1>2, <1>4

\* A step that keeps the line, the permits and the capacities.
LEMMA Unnoticed ==
  ASSUME ticket' = ticket, Holding' = Holding, limit' = limit
  PROVE  UNCHANGED Promise!slots
  BY LineUnmoved DEF Promise!slots, Waiting, Ahead, Before

\* Each step of the gate is a step of the promise, or nothing it speaks of.
LEMMA StepImplements ==
  Queue /\ SlotsAccounted /\ [Next]_vars => [Promise!Next]_(Promise!slots)
  <1> SUFFICES ASSUME Queue, SlotsAccounted, [Next]_vars
               PROVE  Promise!Next \/ UNCHANGED Promise!slots
    OBVIOUS
  <1>0. TypeOK /\ LineIsServed /\ LineInOrder /\ TypeOK' /\ Steps
    BY NextSteps, StepTypeOK DEF Queue
  <1>1. ASSUME NEW m \in Adverts, Configure(m) PROVE Promise!Next
    <2>1. Holding' = Holding
      BY <1>0, <1>1, BroadcastingAll DEF Configure, Holding
    <2>2. Promise!SetLimits
      BY <1>0, <1>1, <2>1, LineUnmoved
      DEF Configure, line, TypeOK, Promise!SetLimits, Waiting, Ahead, Before
    <2> QED
      BY <2>2 DEF Promise!Next
  <1>2. CASE MarkUnavailable
    <2>1. Holding' = Holding
      BY <1>0, <1>2, BroadcastingAll DEF MarkUnavailable, Holding
    <2> QED
      BY <1>2, <2>1, Unnoticed DEF MarkUnavailable, line, pools
  <1>3. CASE Tick
    BY <1>3, Unnoticed DEF Tick, line, pools, Holding
  <1>4. ASSUME NEW r \in Requests, Refuse(r) PROVE UNCHANGED Promise!slots
    <2>1. Holding' = Holding
      BY <1>0, <1>4 DEF Refuse, TypeOK, Holding
    <2> QED
      BY <1>4, <2>1, Unnoticed DEF Refuse, line, pools
  <1>5. ASSUME NEW r \in Requests, JoinAndEnter(r) PROVE Promise!Next
    <2>1. Holding' = Holding \cup {r}
      BY <1>0, <1>5, Broadcasting DEF JoinAndEnter, Holding, RequestStates
    <2>2. Promise!Outside(r)
      BY <1>0, <1>5 DEF JoinAndEnter, LineIsServed, Holding, Promise!Outside
    <2>3. Promise!Fits(r) /\ \A q \in Waiting : ~Promise!Fits(q)
      BY <1>5, FitsIsRoom, FitsInLine DEF JoinAndEnter, Waiting
    <2>4. Promise!Enter(r)
      BY <1>5, <2>1, <2>2, <2>3, LineUnmoved
      DEF JoinAndEnter, pools, Promise!Enter, Waiting, Ahead, Before
    <2> QED
      BY <2>4 DEF Promise!Next
  <1>6. ASSUME NEW r \in Requests, JoinAndGiveUp(r) PROVE UNCHANGED Promise!slots
    <2>1. Holding' = Holding
      BY <1>0, <1>6, Broadcasting DEF JoinAndGiveUp, Holding, RequestStates
    <2> QED
      BY <1>6, <2>1, Unnoticed DEF JoinAndGiveUp, pools
  <1>7. ASSUME NEW r \in Requests, JoinAndSleep(r) PROVE Promise!Next
    <2>1. Holding' = Holding
      BY <1>0, <1>7 DEF JoinAndSleep, Sleep, Holding, TypeOK
    <2>2. Promise!Outside(r) /\ ~InLine(r)
      BY <1>0, <1>7 DEF JoinAndSleep, LineIsServed, Holding, Promise!Outside
    <2>3. Waiting' = Waiting \cup {r} /\ Ahead' = [Ahead EXCEPT ![r] = Waiting]
      BY <1>7, <2>2, LineJoined DEF JoinAndSleep
    <2>4. Promise!Wait(r)
      BY <1>7, <2>1, <2>2, <2>3
      DEF JoinAndSleep, pools, Promise!Wait, Waiting, Ahead, Before
    <2> QED
      BY <2>4 DEF Promise!Next
  <1>8. ASSUME NEW r \in Requests, Admit(r) PROVE Promise!Next
    <2>1. Holding' = Holding \cup {r}
      BY <1>0, <1>8, Broadcasting DEF Admit, Holding, RequestStates
    <2>2. Promise!StepOut(r)
      BY <1>0, <1>8, LineLeft DEF Admit, NextUp
    <2>3. Promise!Fits(r)
      BY <1>8, FitsInLine DEF Admit, NextUp
    <2>4. ASSUME NEW q \in Ahead[r] PROVE ~Promise!Fits(q)
      <3>1. q \in Requests /\ InLine(q) /\ ticket[q] < ticket[r]
        BY <1>8, <2>4 DEF Admit, NextUp, Ahead, Before
      <3>2. ticket[q] \in Nat /\ ticket[r] \in Nat
        BY <1>0, <3>1 DEF TypeOK
      <3>3. ~HasRoom(q)
        BY <1>8, <3>1, <3>2 DEF Admit, NextUp
      <3> QED
        BY <3>1, <3>3, FitsInLine
    <2>5. Promise!Admit(r)
      BY <1>8, <2>1, <2>2, <2>3, <2>4 DEF Admit, pools, Promise!Admit, Ahead, Before
    <2> QED
      BY <2>5 DEF Promise!Next
  <1>9. ASSUME NEW r \in Requests, GiveUp(r) PROVE Promise!Next
    <2>1. Holding' = Holding
      BY <1>0, <1>9, Broadcasting DEF GiveUp, Holding, RequestStates
    <2>2. Promise!StepOut(r)
      BY <1>0, <1>9, LineLeft DEF GiveUp, LineIsServed
    <2>3. Promise!GiveUp(r)
      BY <1>9, <2>1, <2>2 DEF GiveUp, pools, Promise!GiveUp
    <2> QED
      BY <2>3 DEF Promise!Next
  <1>10. ASSUME NEW r \in Requests, SleepAgain(r) PROVE UNCHANGED Promise!slots
    <2>1. Holding' = Holding
      BY <1>0, <1>10 DEF SleepAgain, Sleep, Holding, TypeOK
    <2> QED
      BY <1>10, <2>1, Unnoticed DEF SleepAgain, line, pools
  <1>11. ASSUME NEW r \in Requests, WakeUp(r) PROVE UNCHANGED Promise!slots
    <2>1. Holding' = Holding
      BY <1>0, <1>11 DEF WakeUp, Holding, TypeOK
    <2> QED
      BY <1>11, <2>1, Unnoticed DEF WakeUp, line, pools
  <1>12. ASSUME NEW r \in Requests, Cancel(r) PROVE UNCHANGED Promise!slots
    BY <1>12, Unnoticed DEF Cancel, line, pools, Holding
  <1>13. ASSUME NEW r \in Requests, Release(r) PROVE Promise!Next
    <2>1. r \in Holding /\ Holding' = Holding \ {r}
      BY <1>0, <1>13, Broadcasting DEF Release, Holding, RequestStates
    <2>2. Promise!Return(r)
      BY <1>13, <2>1, LineUnmoved
      DEF Release, line, pools, Promise!Return, Waiting, Ahead, Before
    <2> QED
      BY <2>2 DEF Promise!Next
  <1>14. CASE UNCHANGED vars
    BY <1>14, Unnoticed DEF vars, line, pools, Holding
  <1> QED
    BY <1>0, <1>1, <1>2, <1>3, <1>4, <1>5, <1>6, <1>7, <1>8, <1>9, <1>10, <1>11, <1>12,
       <1>13, <1>14 DEF Steps

\* The gate keeps its promise: all of a chain's slots or none, no pool past its
\* capacity, the longest waiting of those that fit goes first.
THEOREM GateKeepsPromise == Spec => ImplementsSlots
  <1>1. Init => Promise!Init
    BY DEF Init, Promise!Init, InLine, Holding
  <1>2. Init => SlotsAccounted
    BY InitSlots
  <1> QED
    BY <1>1, <1>2, InitQueue, StepQueue, StepSlots, StepImplements, PTL
    DEF Spec, ImplementsSlots, Promise!Spec

-----------------------------------------------------------------------------
(* The maps of pools that the pools above come from.                       *)

LEMMA CapsHaveNames ==
  ASSUME NEW name, Canonical[name] = NoCap
  PROVE name \notin Caps
BY NamesTyped, CanonicalOfCap

\* A pool has room under what is admitted by exactly when it has room both
\* under what the operator configured and under what the cartridge reports.
THEOREM EffectiveIsBoth ==
  ASSUME NEW configured \in Nat, NEW reported \in Nat \cup {Absent}, NEW inUse \in Nat
  PROVE RoomUnder(Effective(configured, reported), inUse)
          <=> /\ RoomUnder(configured, inUse)
              /\ reported = Absent \/ RoomUnder(reported, inUse)
BY AbsentIsNoNumber DEF RoomUnder, Effective, Unlimited

\* A cartridge that is not running is sent one request at a time, and one that
\* is gets what both numbers allow.
THEOREM ColdIsOne ==
  ASSUME NEW configured \in Nat, NEW reported \in Nat \cup {Absent}, NEW inUse \in Nat,
         RoomUnder(Advertised(FALSE, All, configured, reported), inUse)
  PROVE inUse = 0
BY DEF RoomUnder, Advertised, Unlimited

\* The switch, from the map a cartridge sends, and the cartridge, from its
\* manifest, take a cap's requests through the same pools, all of them in the map.
THEOREM ChainsAgree ==
  ASSUME NEW patterns \in SUBSET Caps, NEW d \in Declarations, NEW cap \in patterns,
         \A name \in DOMAIN d.pools : name # All /\ Canonical[name] = NoCap
  PROVE /\ SwitchChain(PoolStates(patterns, d), cap) = RuntimeChain(d, cap)
        /\ Covers(PoolStates(patterns, d), cap)
<1> DEFINE states == PoolStates(patterns, d)
<1>1. DOMAIN states = patterns \cup DOMAIN d.pools \cup {All}
  BY DEF PoolStates, PoolNames
<1>2. \A name \in DOMAIN d.pools : name \notin Caps /\ name # All
  BY CapsHaveNames
<1>3. All \notin Caps
  BY CapsHaveNames, AllIsNoCap
<1>4. ASSUME NEW name \in DOMAIN d.pools
      PROVE /\ name \in DOMAIN SharedIn(states, cap)
            /\ SharedIn(states, cap)[name] = MembersOf(d, name)
  BY <1>1, <1>2 DEF SharedIn, PoolStates, PoolNames, ListedIn
<1>5. ASSUME NEW name \in DOMAIN SharedIn(states, cap), name \notin DOMAIN d.pools
      PROVE SharedIn(states, cap)[name] = {}
  <2>1. name \in DOMAIN states /\ name # All /\ SharedIn(states, cap)[name] = states[name].caps
    BY DEF SharedIn
  <2>2. states[name].caps = ListedIn(patterns, d, name)
    BY <2>1, <1>1 DEF PoolStates, PoolNames
  <2> QED BY <2>1, <2>2, <1>5 DEF ListedIn
<1>6. {name \in DOMAIN SharedIn(states, cap) : cap \in SharedIn(states, cap)[name]}
        = {name \in DOMAIN d.pools : cap \in MembersOf(d, name)}
  BY <1>4, <1>5
<1>7. SwitchChain(states, cap) = RuntimeChain(d, cap)
  BY <1>6 DEF SwitchChain, RuntimeChain, ChainThrough
<1>8. Covers(states, cap)
  BY <1>1, <1>6 DEF Covers, SwitchChain, ChainThrough
<1> QED BY <1>7, <1>8

\* A limit a manifest declares is the limit of the pool it means, however the
\* manifest spells it, once the declarations were validated.
THEOREM LimitsKept ==
  ASSUME NEW caps \in SUBSET Caps, NEW d \in Declarations, Valid(d, caps),
         NEW key \in DOMAIN d.capacities
  PROVE CapacityOf(Validated(d), KeyOf(d, key)) = d.capacities[key]
<1> DEFINE name == KeyOf(d, key)
           meant == CHOOSE k \in DOMAIN d.capacities : KeyOf(d, k) = name
<1>1. meant \in DOMAIN d.capacities /\ KeyOf(d, meant) = name
  OBVIOUS
<1>2. meant = key
  BY <1>1 DEF Valid
<1>3. /\ name \in DOMAIN Validated(d).capacities
      /\ Validated(d).capacities[name] = d.capacities[meant]
  BY DEF Validated
<1> QED BY <1>2, <1>3 DEF CapacityOf

\* Validated declarations are ones the runtime takes, when it has a handler for
\* every cap of the manifest.
THEOREM ValidatedMaterializes ==
  ASSUME NEW caps \in SUBSET Caps, NEW patterns \in SUBSET Caps, caps \subseteq patterns,
         NEW d \in Declarations, Valid(d, caps)
  PROVE Materializes(patterns, Validated(d))
<1> DEFINE v == Validated(d)
<1>1. ASSUME NEW name \in DOMAIN v.pools
      PROVE MembersOf(v, name) \subseteq patterns
  <2>1. name \in DOMAIN d.pools /\ v.pools[name] = [i \in DOMAIN d.pools[name] |-> Canonical[d.pools[name][i]]]
    BY DEF Validated
  <2>2. \A i \in DOMAIN d.pools[name] : Canonical[d.pools[name][i]] \in caps
    BY <2>1 DEF Valid, MembersOf
  <2>3. \A i \in DOMAIN d.pools[name] : Canonical[v.pools[name][i]] \in caps
    BY <2>1, <2>2, CanonicalOfCap
  <2> QED BY <2>1, <2>3 DEF MembersOf
<1>2. ASSUME NEW key \in DOMAIN v.capacities
      PROVE key \in PoolNames(patterns, v) \/ Canonical[key] \in patterns
  <2>1. PICK k \in DOMAIN d.capacities : key = KeyOf(d, k)
    BY DEF Validated
  <2>2. DOMAIN v.pools = DOMAIN d.pools
    BY DEF Validated
  <2>3. key = All \/ key \in DOMAIN d.pools \/ key \in caps
    BY <2>1 DEF KeyOf, Valid
  <2> QED BY <2>2, <2>3 DEF PoolNames
<1> QED BY <1>1, <1>2 DEF Materializes

=============================================================================
