---------------------------- MODULE RequestTable ----------------------------
(***************************************************************************)
(* The table of the requests in flight (RequestTable of RequestState.swift).*)
(*                                                                         *)
(* Frames of a request may come with its request id alone, so beside the   *)
(* entries the table keeps an index from request id to routing id; the two *)
(* are written apart, and each is trusted by other callers.  Whoever calls *)
(* holds the lock of the switch, so each operation is one step.            *)
(*                                                                         *)
(* An entry is abstracted to the peer calls linked under it, a summary of  *)
(* an ended request to its request id.  The slot an entry holds, given     *)
(* back as it is removed, is in RelaySwitch.                               *)
(***************************************************************************)
EXTENDS Naturals, Sequences, FiniteSets

CONSTANTS
  Xids, Rids,
  RecentCapacity,  \* recentTerminatedCap, 64 in the code
  MaxRegistered    \* the greatest value of the counts

VARIABLES
  entries,           \* by key, the calls linked under the request
  ridIndex,          \* the routing id of a request id
  recentTerminated,  \* the ring of ended requests, oldest first
  totalRegistered,
  totalTerminated    \* terminatedByKind, summed

vars == <<entries, ridIndex, recentTerminated, totalRegistered, totalTerminated>>

Keys == Xids \X Rids

Init ==
  /\ entries = [key \in {} |-> {}]
  /\ ridIndex = [rid \in {} |-> 0]
  /\ recentTerminated = <<>>
  /\ totalRegistered = 0 /\ totalTerminated = 0

-----------------------------------------------------------------------------
(* register throws, and changes nothing, where the first two conjuncts fail.*)

Indexed(index, key) ==
  [rid \in DOMAIN index \cup {key[2]} |-> IF rid = key[2] THEN key[1] ELSE index[rid]]

Register(key) ==
  /\ key \notin DOMAIN entries
  /\ key[2] \in DOMAIN ridIndex => ridIndex[key[2]] = key[1]
  /\ totalRegistered < MaxRegistered
  /\ ridIndex' = Indexed(ridIndex, key)
  /\ entries' = [k \in DOMAIN entries \cup {key} |-> IF k = key THEN {} ELSE entries[k]]
  /\ totalRegistered' = totalRegistered + 1
  /\ UNCHANGED <<recentTerminated, totalTerminated>>

\* The index is only cleared where it points at this request.
Unindexed(index, key) ==
  IF key[2] \in DOMAIN index /\ index[key[2]] = key[1]
  THEN [rid \in DOMAIN index \ {key[2]} |-> index[rid]]
  ELSE index

\* A full ring loses its oldest before it takes another.
Recorded(ring, rid) ==
  Append(IF Len(ring) >= RecentCapacity THEN Tail(ring) ELSE ring, rid)

Terminate(key) ==
  /\ key \in DOMAIN entries
  /\ entries' = [k \in DOMAIN entries \ {key} |-> entries[k]]
  /\ ridIndex' = Unindexed(ridIndex, key)
  /\ recentTerminated' = Recorded(recentTerminated, key[2])
  /\ totalTerminated' = totalTerminated + 1
  /\ UNCHANGED totalRegistered

\* A peer call whose parent has ended is linked nowhere.
LinkChild(parent, child) ==
  /\ parent \in DOMAIN entries
  /\ entries' = [entries EXCEPT ![parent] = @ \cup {child}]
  /\ UNCHANGED <<ridIndex, recentTerminated, totalRegistered, totalTerminated>>

Next ==
  \E key \in Keys :
    \/ Register(key)
    \/ Terminate(key)
    \/ \E child \in Keys : LinkChild(key, child)

Spec == Init /\ [][Next]_vars

-----------------------------------------------------------------------------
(* Its answers.                                                            *)

XidForRid(rid) == rid \in DOMAIN ridIndex

RecentlyTerminatedRid(rid) == \E i \in DOMAIN recentTerminated : recentTerminated[i] = rid

Table == INSTANCE LifeCycle WITH
  live <- DOMAIN entries, ended <- recentTerminated, registered <- totalRegistered,
  Kept <- RecentCapacity

Disposition(rid) == Table!Dispose(XidForRid(rid), RecentlyTerminatedRid(rid))

-----------------------------------------------------------------------------
(* Properties.                                                             *)

\* The state of the table keeps its type (RequestTable's fields).
TypeOK ==
  /\ DOMAIN entries \subseteq Keys /\ entries \in [DOMAIN entries -> SUBSET Keys]
  /\ DOMAIN ridIndex \subseteq Rids /\ ridIndex \in [DOMAIN ridIndex -> Xids]
  /\ recentTerminated \in Seq(Rids) /\ Len(recentTerminated) <= RecentCapacity
  /\ totalRegistered \in Nat /\ totalTerminated \in Nat

\* Index and entries tell of the same requests, each of them once: no frame is
\* routed by an index to a request that is gone, and no live one is unreachable.
IndexAgrees ==
  DOMAIN entries = {<<ridIndex[rid], rid>> : rid \in DOMAIN ridIndex}

\* Every registered request is in flight or was ended, and none is ended twice.
EachEndsOnce ==
  IsFiniteSet(DOMAIN entries)
    /\ totalRegistered = Cardinality(DOMAIN entries) + totalTerminated

\* A frame is told from a straggler or a stranger as the formal table tells it.
DispositionAgrees == \A rid \in Rids : Disposition(rid) = Table!Disposition(rid)

\* The table is the formal program's table.
ImplementsTable == Table!Spec
=============================================================================
