------------------------------- MODULE Credit -------------------------------
(***************************************************************************)
(* The two ends of a credit window (Credit.swift), as pure operators.      *)
(*                                                                         *)
(* A gate is the sending end: how many CHUNK frames may still be sent, and *)
(* whether the request ended.  A window is the receiving end: how many     *)
(* more chunks the sender was promised room for, and how many were         *)
(* consumed and not yet granted back.  Each step of CreditGate and         *)
(* CreditWindow runs under one lock hold, so each is one operator.         *)
(***************************************************************************)
EXTENDS Naturals

\* The credit window both ends of a link open their streams with.  0 stands
\* for the handshake's refusal: a window of zero could never move.
Negotiate(ours, theirs) == IF ours <= theirs THEN ours ELSE theirs

-----------------------------------------------------------------------------
(* The sending end: CreditGate.                                            *)

Gates == [available : Nat, closed : BOOLEAN]

GateOpened(size) == [available |-> size, closed |-> FALSE]

\* Mutated: the gate lets one credit too many go.
CanAcquireOneMore(g, n) == ~g.closed /\ n <= g.available + 1

CanAcquire(g, n) == ~g.closed /\ n <= g.available

MustWait(g, n) == ~g.closed /\ g.available < n

Acquired(g, n) == [g EXCEPT !.available = @ - n]

\* Mutated: a grant replaces what is left instead of adding to it.
GrantedReplaces(g, n) == IF g.closed THEN g ELSE [g EXCEPT !.available = n]

\* A grant after the close is a no-op.
Granted(g, n) == IF g.closed THEN g ELSE [g EXCEPT !.available = @ + n]

Closed(g) == [g EXCEPT !.closed = TRUE]

-----------------------------------------------------------------------------
(* The receiving end: CreditWindow.                                        *)

Windows == [remaining : Nat, pending : Nat, batch : Nat \ {0}]

\* Half the window, at least one.
BatchOf(size) == IF size \div 2 = 0 THEN 1 ELSE size \div 2

WindowOpened(size) ==
  [remaining |-> size, pending |-> 0, batch |-> BatchOf(size)]

\* A chunk that arrives with nothing remaining is beyond what was granted.
Violates(w) == w.remaining = 0

Arrived(w) == [w EXCEPT !.remaining = @ - 1]

\* Mutated: the chunk that completes the batch is left out of the grant.
ConsumeGrantShort(w) == IF w.pending + 1 >= w.batch THEN w.pending ELSE 0

\* The grant a consumed chunk makes due: none until a batch has built up.
ConsumeGrant(w) == IF w.pending + 1 >= w.batch THEN w.pending + 1 ELSE 0

\* Mutated: the batch is granted and stays pending.
ConsumedKeepsPending(w) ==
  IF w.pending + 1 >= w.batch
  THEN [w EXCEPT !.remaining = @ + w.pending + 1]
  ELSE [w EXCEPT !.pending = @ + 1]

Consumed(w) ==
  IF w.pending + 1 >= w.batch
  THEN [remaining |-> w.remaining + w.pending + 1, pending |-> 0, batch |-> w.batch]
  ELSE [w EXCEPT !.pending = @ + 1]

\* Mutated: a flush sends nothing.
FlushGrantNothing(w) == 0

FlushGrant(w) == w.pending

Flushed(w) ==
  [remaining |-> w.remaining + w.pending, pending |-> 0, batch |-> w.batch]

\* A chunk that only continues an item is granted back at once.
ContinueGrant(w) == 1

\* Mutated: the credit goes back and the window keeps no room for it.
ContinuedWithoutRoom(w) == w

Continued(w) == [w EXCEPT !.remaining = @ + 1]

=============================================================================
