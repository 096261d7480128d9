------------------------------ MODULE Routing ------------------------------
(***************************************************************************)
(* Who serves a request.  The choice is made four times, each time over    *)
(* another table: the switch chooses the cap whose pool admits the request *)
(* (RelaySwitch.swift, acquireCapAdmission), then, the slot had, a master  *)
(* (sendToMaster); the master's host chooses a cartridge                   *)
(* (CartridgeHost.swift, findCartridgeForCapLocked) and the cartridge a    *)
(* handler (CartridgeRuntime.swift, findHandlerWithPattern).  Cartridges   *)
(* come and go meanwhile, and the switch learns of it late.                *)
(*                                                                         *)
(* The order of a table is not modelled: where the code takes the first    *)
(* entry, or sorts by a rank that ties, any of them may be it.             *)
(***************************************************************************)
EXTENDS Integers

CONSTANTS
  Caps,         \* cap URNs, registered and asked for
  Serves,       \* pairs <<cap, request>> that isDispatchable accepts
  Equivalents,  \* pairs that isEquivalent accepts
  Score,        \* specificity of each cap
  Masters,
  Cartridges,
  Host,         \* the master under which each cartridge is installed
  Handlers,     \* the caps for which each cartridge registered a handler
  None,
  MaxChanges    \* bound: how often a cartridge comes or goes

ASSUME RoutingAssumption ==
  /\ Serves \subseteq Caps \X Caps
  /\ Equivalents \subseteq Caps \X Caps
  /\ Score \in [Caps -> Int]
  /\ Host \in [Cartridges -> Masters]
  /\ Handlers \in [Cartridges -> SUBSET Caps]
  /\ None \notin Caps \cup Masters \cup Cartridges
  /\ MaxChanges \in Nat

VARIABLES
  installed,  \* cartridges that are operational
  known,      \* cartridges of each master, as it last told the switch
  phase,      \* how far the request has come
  request,    \* the cap it asks for
  preferred,  \* the cap its caller would have, if any
  charged,    \* the cap whose pools admitted it
  chosen,     \* the cap for which its master was chosen
  master,
  cartridge,
  unseen,     \* handlers the loop of findHandlerWithPattern has not reached
  best,       \* the handler it holds for the best
  steady,     \* history: no table changed since the master was chosen
  changes

tables == <<installed, known, changes>>
vars == <<tables, phase, request, preferred, charged, chosen, master,
          cartridge, unseen, best, steady>>

Phases == {"new", "admitted", "sent", "hosted", "served", "refused"}

TypeOK ==
  /\ installed \in SUBSET Cartridges
  /\ known \in [Masters -> SUBSET Cartridges]
  /\ phase \in Phases
  /\ request \in Caps
  /\ preferred \in Caps \cup {None}
  /\ charged \in Caps \cup {None}
  /\ chosen \in Caps \cup {None}
  /\ master \in Masters \cup {None}
  /\ cartridge \in Cartridges \cup {None}
  /\ unseen \in SUBSET Caps
  /\ best \in Caps \cup {None}
  /\ steady \in BOOLEAN
  /\ changes \in 0..MaxChanges

-----------------------------------------------------------------------------
\* Entries of the tables.
CapTable ==
  {e \in Caps \X Masters : \E k \in known[e[2]] : e[1] \in Handlers[k]}

InstalledUnder(m) == {k \in installed : Host[k] = m}

HostTable(m) ==
  {e \in Caps \X InstalledUnder(m) : e[1] \in Handlers[e[2]]}

Distance(c) == Score[c] - Score[request]

Abs(d) == IF d < 0 THEN -d ELSE d

\* The order by which the switch and the host sort what could serve: as
\* specific as the request, then more specific, then more general.
Before(c, d) ==
  LET x == Distance(c)
      y == Distance(d) IN
  \/ x >= 0 /\ y < 0
  \/ (x >= 0 <=> y >= 0) /\ Abs(x) < Abs(y)

\* Mutated: the loop takes a more general handler over a more specific one.
DominatedEither(held, c) == Abs(Distance(held)) <= Abs(Distance(c))

\* What findHandlerWithPattern asks of the handler it holds and the next one.
Dominated(held, c) ==
  LET x == Distance(held)
      y == Distance(c) IN
  \/ x >= 0 /\ y < 0
  \/ ~(x < 0 /\ y >= 0) /\ Abs(x) <= Abs(y)

\* Entries of a table that serve the request; those that may come first.
Matches(table) == {e \in table : <<e[1], request>> \in Serves}

First(matches) == {e \in matches : \A f \in matches : ~Before(f[1], e[1])}

\* findMasterForCap.
MasterChoices ==
  LET matches == Matches(CapTable)
      wanted == {e \in matches : <<preferred, e[1]>> \in Equivalents} IN
  IF preferred # None /\ wanted # {} THEN wanted ELSE First(matches)

\* registeredCapForLocked: the first entry of the master that serves.
Registered(m) == {c \in Caps : <<c, m>> \in Matches(CapTable)}

\* capAdmissionTargetLocked: the pools are those of the one install of the
\* master that claims the cap; with two of them it throws.
Owners(m, c) == {k \in known[m] : c \in Handlers[k]}

-----------------------------------------------------------------------------
Init ==
  /\ installed \in SUBSET Cartridges
  /\ known = [m \in Masters |-> InstalledUnder(m)]
  /\ phase = "new"
  /\ request \in Caps
  /\ preferred \in Caps \cup {None}
  /\ charged = None
  /\ chosen = None
  /\ master = None
  /\ cartridge = None
  /\ unseen = {}
  /\ best = None
  /\ steady = FALSE
  /\ changes = 0

Refuse ==
  /\ phase' = "refused"
  /\ UNCHANGED <<charged, chosen, master, cartridge, unseen, best, steady>>

\* The switch resolves the pools to wait for, under its lock.
Admit ==
  /\ phase = "new"
  /\ \/ MasterChoices = {} /\ Refuse
     \/ \E e \in MasterChoices : \E c \in Registered(e[2]) :
          IF \E k \in Owners(e[2], c) : Owners(e[2], c) = {k}
          THEN /\ charged' = c
               /\ phase' = "admitted"
               /\ UNCHANGED <<chosen, master, cartridge, unseen, best, steady>>
          ELSE Refuse
  /\ UNCHANGED <<tables, request, preferred>>

\* The slot had, the switch chooses the master anew.
Send ==
  /\ phase = "admitted"
  /\ \/ MasterChoices = {} /\ Refuse
     \/ \E e \in MasterChoices :
          /\ chosen' = e[1]
          /\ master' = e[2]
          /\ steady' = (known[e[2]] = InstalledUnder(e[2]))
          /\ phase' = "sent"
          /\ UNCHANGED <<charged, cartridge, unseen, best>>
  /\ UNCHANGED <<tables, request, preferred>>

\* The host chooses a cartridge, which takes the lock of its handlers.
Hosted ==
  /\ phase = "sent"
  /\ LET matches == Matches(HostTable(master)) IN
     \/ matches = {} /\ Refuse
     \/ \E e \in First(matches) :
          /\ cartridge' = e[2]
          /\ unseen' = Handlers[e[2]]
          /\ phase' = "hosted"
          /\ UNCHANGED <<charged, chosen, master, best, steady>>
  /\ UNCHANGED <<tables, request, preferred>>

\* One turn of the loop over the handlers.
Consider ==
  /\ phase = "hosted"
  /\ \E c \in unseen :
       /\ unseen' = unseen \ {c}
       /\ best' = IF /\ <<c, request>> \in Serves
                     /\ best # None => ~Dominated(best, c)
                  THEN c ELSE best
  /\ UNCHANGED <<tables, phase, request, preferred, charged, chosen, master,
                 cartridge, steady>>

\* The loop is over: the handler runs, or the request is refused.
Serve ==
  /\ phase = "hosted"
  /\ unseen = {}
  /\ IF best = None THEN Refuse
     ELSE /\ phase' = "served"
          /\ UNCHANGED <<charged, chosen, master, cartridge, unseen, best, steady>>
  /\ UNCHANGED <<tables, request, preferred>>

-----------------------------------------------------------------------------
\* A cartridge is installed or goes.
Change ==
  /\ changes < MaxChanges
  /\ \E k \in Cartridges :
       installed' = IF k \in installed THEN installed \ {k}
                    ELSE installed \cup {k}
  /\ changes' = changes + 1
  /\ steady' = (steady /\ phase # "sent")
  /\ UNCHANGED <<known, phase, request, preferred, charged, chosen, master,
                 cartridge, unseen, best>>

\* A master's notification reaches the switch.
Notify(m) ==
  /\ known' = [known EXCEPT ![m] = InstalledUnder(m)]
  /\ UNCHANGED <<installed, changes, phase, request, preferred, charged,
                 chosen, master, cartridge, unseen, best, steady>>

Done == phase \in {"served", "refused"} /\ UNCHANGED vars

Next ==
  \/ Admit \/ Send \/ Hosted \/ Consider \/ Serve
  \/ Change
  \/ \E m \in Masters : Notify(m)
  \/ Done

Spec == Init /\ [][Next]_vars

-----------------------------------------------------------------------------
\* What runs serves the request and no handler beside it ranks before it;
\* and where the switch's table was true and nothing changed on the way, the
\* three rankings, written three times, agree with the choice of the switch.
ServedByTheBest ==
  phase = "served" =>
    /\ <<best, request>> \in Serves
    /\ \A c \in Handlers[cartridge] :
         <<c, request>> \in Serves => ~Before(c, best)
    /\ steady =>
         /\ ~Before(chosen, best)
         /\ preferred = None => ~Before(best, chosen)

\* The slot that a request holds is a slot of the cap that serves it, where
\* nothing changed on the way: "the cap-table entry on this master that
\* capUrn dispatches to".
ChargedIsServed ==
  phase = "served" /\ steady => charged = best
=============================================================================
