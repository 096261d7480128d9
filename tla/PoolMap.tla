------------------------------ MODULE PoolMap ------------------------------
(***************************************************************************)
(* Which pools a request takes slots in, and how many there are            *)
(* (Pools.swift, RuntimePools of CartridgeRuntime.swift, RelaySwitch.swift, *)
(* CapDAG.Bifaci.Pools).                                                   *)
(*                                                                         *)
(* A manifest declares shared pools over caps, and capacities.  A          *)
(* cartridge's runtime makes its pool map of them, admits by it and sends  *)
(* it up; the switch takes each cap's chain from the map it was sent.  The *)
(* two must come to the same pools, though they start from different data. *)
(*                                                                         *)
(* A chain is the set of its pools: it is taken as a whole.                *)
(***************************************************************************)
EXTENDS Naturals, Sequences

CONSTANTS
  Refs,       \* the names a manifest may use
  Caps,       \* those that are canonical cap URNs
  Canonical,  \* the cap a name spells, or NoCap: CSCapUrn.fromString(...).toString()
  NoCap,
  Absent,     \* no report: available is nil
  All         \* the reserved pool of every cap

ASSUME NamesTyped ==
  /\ Caps \subseteq Refs /\ All \in Refs /\ NoCap \notin Refs
  /\ Canonical \in [Refs -> Caps \cup {NoCap}]
ASSUME CanonicalOfCap == \A c \in Caps : Canonical[c] = c
ASSUME AllIsNoCap == Canonical[All] = NoCap
ASSUME AbsentIsNoNumber == Absent \notin Nat

Unlimited == 0

-----------------------------------------------------------------------------
(* Capacities.                                                             *)

\* The least of what the operator configured and what the cartridge reports,
\* where 0 is no limit and no report is none either.
Effective(configured, available) ==
  IF available \in {Absent, Unlimited} THEN configured
  ELSE IF configured = Unlimited \/ available < configured THEN available
  ELSE configured

RoomUnder(limit, active) == limit = Unlimited \/ active < limit

\* What the switch admits by: a cartridge not running yet gets one request.
Advertised(running, pool, configured, available) ==
  IF ~running /\ pool = All THEN 1 ELSE Effective(configured, available)

-----------------------------------------------------------------------------
(* Declarations: members of each shared pool, and capacities by name, both *)
(* as a manifest spells them.                                              *)

Declarations ==
  [pools : UNION {[names -> Seq(Refs)] : names \in SUBSET Refs},
   capacities : UNION {[names -> Nat] : names \in SUBSET Refs}]

MembersOf(d, name) == {Canonical[d.pools[name][i]] : i \in DOMAIN d.pools[name]}

ListedOnce(d, name) ==
  \A i, j \in DOMAIN d.pools[name] :
    Canonical[d.pools[name][i]] = Canonical[d.pools[name][j]] => i = j

KeyOf(d, key) == IF key = All \/ key \in DOMAIN d.pools THEN key ELSE Canonical[key]

\* What PoolDeclarations.validated accepts for a manifest of these caps.
Valid(d, caps) ==
  /\ \A name \in DOMAIN d.pools :
       /\ name # All /\ Canonical[name] = NoCap
       /\ d.pools[name] # <<>> /\ MembersOf(d, name) \subseteq caps /\ ListedOnce(d, name)
  /\ \A key \in DOMAIN d.capacities :
       key = All \/ key \in DOMAIN d.pools \/ Canonical[key] \in caps
  /\ \A k, l \in DOMAIN d.capacities : KeyOf(d, k) = KeyOf(d, l) => k = l

\* And what it makes of it: members and keys by their canonical names.
Validated(d) ==
  [pools |-> [name \in DOMAIN d.pools |->
                [i \in DOMAIN d.pools[name] |-> Canonical[d.pools[name][i]]]],
   capacities |-> [key \in {KeyOf(d, k) : k \in DOMAIN d.capacities} |->
                     d.capacities[CHOOSE k \in DOMAIN d.capacities : KeyOf(d, k) = key]]]

-----------------------------------------------------------------------------
(* The runtime's pools, over the caps its handlers are registered under.   *)

PoolNames(patterns, d) == patterns \cup DOMAIN d.pools \cup {All}

\* What RuntimePools.init accepts.
Materializes(patterns, d) ==
  /\ \A name \in DOMAIN d.pools : MembersOf(d, name) \subseteq patterns
  /\ \A key \in DOMAIN d.capacities :
       key \in PoolNames(patterns, d) \/ Canonical[key] \in patterns

CapacityOf(d, name) ==
  IF name \in DOMAIN d.capacities THEN d.capacities[name] ELSE Unlimited

\* Singletons list no member; a later entry of a name replaces an earlier one.
ListedIn(patterns, d, name) ==
  IF name = All THEN patterns
  ELSE IF name \in DOMAIN d.pools THEN MembersOf(d, name)
  ELSE {}

\* The map as it starts: nothing reported yet.
PoolStates(patterns, d) ==
  [name \in PoolNames(patterns, d) |->
     [configured |-> CapacityOf(d, name), available |-> Absent,
      caps |-> ListedIn(patterns, d, name)]]

\* Pools.chain: the cap's own pool, the shared pools it is listed in, all.
ChainThrough(cap, shared) ==
  {cap} \cup {name \in DOMAIN shared : cap \in shared[name]} \cup {All}

RuntimeChain(d, cap) ==
  ChainThrough(cap, [name \in DOMAIN d.pools |-> MembersOf(d, name)])

-----------------------------------------------------------------------------
(* The switch, over the map it was sent.                                   *)

SharedIn(states, cap) ==
  [name \in DOMAIN states \ {All, cap} |-> states[name].caps]

SwitchChain(states, cap) == ChainThrough(cap, SharedIn(states, cap))

\* A cap the map does not cover is refused.
Covers(states, cap) == SwitchChain(states, cap) \subseteq DOMAIN states

NoPools == <<>>

\* A record that is not running may have no map yet: its cap is admitted
\* through one slot of all.
AdmissionChain(running, states, cap) ==
  IF ~running /\ states = NoPools THEN {All} ELSE SwitchChain(states, cap)

PoolCapacities(running, states) ==
  IF ~running /\ states = NoPools THEN [name \in {All} |-> 1]
  ELSE [name \in DOMAIN states |->
          Advertised(running, name, states[name].configured, states[name].available)]
=============================================================================
