----------------------------- MODULE LifeCycle -----------------------------
(***************************************************************************)
(* What a request table promises, as the formal program states it          *)
(* (CapDAG.Bifaci.Request, Table): a request is registered once and ended   *)
(* once, and the last few that ended are remembered.                       *)
(***************************************************************************)
EXTENDS Naturals, Sequences

CONSTANTS
  Xids, Rids,    \* a request is known by a routing id and a request id
  Kept,          \* how many ended requests are remembered
  MaxRegistered  \* the greatest value of the count, 2^64 - 1 in the code

VARIABLES live, ended, registered
vars == <<live, ended, registered>>

Keys == Xids \X Rids

Known(rid) == \E xid \in Xids : <<xid, rid>> \in live

EndedLately(rid) == \E i \in DOMAIN ended : ended[i] = rid

\* A frame goes to its request, or is a straggler of one that ended lately,
\* or belongs to nobody.
Dispose(isLive, endedLately) ==
  IF isLive THEN "route" ELSE IF endedLately THEN "straggler" ELSE "no_route"

Disposition(rid) == Dispose(Known(rid), EndedLately(rid))

\* The last n of a sequence.
LastOf(s, n) == IF Len(s) <= n THEN s ELSE SubSeq(s, Len(s) - n + 1, Len(s))

Init == live = {} /\ ended = <<>> /\ registered = 0

Register(key) ==
  /\ ~Known(key[2])
  /\ registered < MaxRegistered
  /\ live' = live \cup {key}
  /\ registered' = registered + 1
  /\ UNCHANGED ended

Terminate(key) ==
  /\ key \in live
  /\ live' = live \ {key}
  /\ ended' = LastOf(Append(ended, key[2]), Kept)
  /\ UNCHANGED registered

Next == \E key \in Keys : Register(key) \/ Terminate(key)

Spec == Init /\ [][Next]_vars
=============================================================================
