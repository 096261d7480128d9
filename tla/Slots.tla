------------------------------- MODULE Slots -------------------------------
(***************************************************************************)
(* What admission promises (RequestState.swift, AdmissionController): a    *)
(* request holds a slot in every pool of its chain or in none, no pool is  *)
(* filled past its limit, and the slots go, in order of arrival, to the    *)
(* request that has waited longest among those whose whole chain has room. *)
(* Nothing is said of threads, of wake-ups or of who counts the slots.     *)
(***************************************************************************)
EXTENDS Naturals, FiniteSets

CONSTANTS Requests, Pools, Chain

VARIABLES
  limit,     \* slots of each pool, 0 for no limit
  waiting,   \* requests that wait
  ahead,     \* for each request that waits, those that waited before it
  holding    \* requests that hold their chain's slots

slots == <<limit, waiting, ahead, holding>>

Taken(p) == Cardinality({r \in holding : p \in Chain[r]})

Fits(r) == \A p \in Chain[r] : limit[p] = 0 \/ Taken(p) < limit[p]

Init ==
  /\ limit \in [Pools -> Nat]
  /\ waiting = {}
  /\ ahead = [r \in Requests |-> {}]
  /\ holding = {}

Outside(r) == r \notin waiting /\ r \notin holding

Wait(r) ==
  /\ Outside(r)
  /\ waiting' = waiting \cup {r}
  /\ ahead' = [ahead EXCEPT ![r] = waiting]
  /\ UNCHANGED <<limit, holding>>

\* A request that arrives when nobody ahead of it could go instead.
Enter(r) ==
  /\ Outside(r)
  /\ Fits(r) /\ \A q \in waiting : ~Fits(q)
  /\ holding' = holding \cup {r}
  /\ UNCHANGED <<limit, waiting, ahead>>

\* Out of the line, for those behind too.
StepOut(r) ==
  /\ r \in waiting
  /\ waiting' = waiting \ {r}
  /\ ahead' = [q \in Requests |-> IF q = r THEN {} ELSE ahead[q] \ {r}]

Admit(r) ==
  /\ StepOut(r)
  /\ Fits(r) /\ \A q \in ahead[r] : ~Fits(q)
  /\ holding' = holding \cup {r}
  /\ UNCHANGED limit

GiveUp(r) == StepOut(r) /\ UNCHANGED <<limit, holding>>

Return(r) ==
  /\ r \in holding
  /\ holding' = holding \ {r}
  /\ UNCHANGED <<limit, waiting, ahead>>

\* Limits may change under those who hold, whom nobody evicts.
SetLimits ==
  /\ limit' \in [Pools -> Nat]
  /\ UNCHANGED <<waiting, ahead, holding>>

Next ==
  \/ \E r \in Requests : \/ Wait(r) \/ Enter(r) \/ Admit(r)
                         \/ GiveUp(r) \/ Return(r)
  \/ SetLimits

Spec == Init /\ [][Next]_slots

=============================================================================
