--------------------------- MODULE RoutingProofs ---------------------------
(***************************************************************************)
(* What runs serves the request, ranks first in its cartridge, and is what *)
(* the switch chose where no table changed - for every set of caps, every  *)
(* score and every table.                                                  *)
(*                                                                         *)
(* A cap's rank is its signed distance from the request.  Before is a      *)
(* strict weak order on distances (Irreflexive, NotBeforeChains), and the  *)
(* two other places that rank, the loop over handlers and the generated    *)
(* key, order in the same way (DominatedIsNotBefore, RankingsAgree).  The  *)
(* invariant says how far each table has been searched.                    *)
(*                                                                         *)
(* The second part is about the URNs themselves, and the third about the   *)
(* registry the caps come from.                                            *)
(***************************************************************************)
EXTENDS Routing, CapUrn, TLAPS

-----------------------------------------------------------------------------
(* The order of distances.                                                 *)

LEMMA Irreflexive ==
  ASSUME TypeOK, NEW c \in Caps
  PROVE  ~Before(c, c)
  BY RoutingAssumption DEF TypeOK, Before, Abs, Distance

LEMMA NotBeforeChains ==
  ASSUME TypeOK, NEW c \in Caps, NEW d \in Caps, NEW e \in Caps,
         ~Before(c, d), ~Before(d, e)
  PROVE  ~Before(c, e)
<1> DEFINE x == Distance(c)
           y == Distance(d)
           z == Distance(e)
<1>1. x \in Int /\ y \in Int /\ z \in Int
  BY RoutingAssumption DEF TypeOK, Distance
<1> QED
  BY <1>1 DEF Before, Abs

LEMMA Asymmetric ==
  ASSUME TypeOK, NEW c \in Caps, NEW d \in Caps, Before(c, d)
  PROVE  ~Before(d, c)
  BY Irreflexive, NotBeforeChains, RoutingAssumption
     DEF TypeOK, Before, Abs, Distance

\* The loop over handlers keeps the one it holds unless the next is before it.
LEMMA DominatedIsNotBefore ==
  ASSUME TypeOK, NEW c \in Caps, NEW d \in Caps
  PROVE  Dominated(c, d) <=> ~Before(d, c)
<1> DEFINE x == Distance(c)
           y == Distance(d)
<1>1. x \in Int /\ y \in Int
  BY RoutingAssumption DEF TypeOK, Distance
<1> QED
  BY <1>1 DEF Before, Dominated, Abs

\* The key by which the generated program ranks (CapDAG-Ranking.c) orders caps
\* as the sorts of switch and host do, and so does the loop over handlers.
THEOREM RankingsAgree ==
  ASSUME TypeOK, NEW c \in Caps, NEW d \in Caps
  PROVE  /\ Before(c, d) <=>
              BetterKey(RankingKey(Score[c], Score[request]),
                        RankingKey(Score[d], Score[request]))
         /\ Dominated(c, d) <=> ~Before(d, c)
<1>1. Score[c] \in Int /\ Score[d] \in Int /\ Score[request] \in Int
  BY RoutingAssumption DEF TypeOK
<1> QED
  BY <1>1, DominatedIsNotBefore
     DEF Before, Abs, Distance, BetterKey, RankingKey

-----------------------------------------------------------------------------
(* The tables.                                                             *)

\* The caps that a host can choose from, each with a cartridge, are those of
\* the switch's table where the switch is up to date.
Offers(m, c) == \E k \in InstalledUnder(m) : c \in Handlers[k]

\* The best of a table: a cap that no other entry is before.
Leads(c, m) ==
  \A d \in Caps : Offers(m, d) /\ <<d, request>> \in Serves => ~Before(d, c)

\* What the search has established when it has come so far.
Searched ==
  /\ phase = "sent" =>
       /\ master \in Masters /\ chosen \in Caps
       /\ steady =>
            /\ Offers(master, chosen) /\ <<chosen, request>> \in Serves
            /\ preferred = None => Leads(chosen, master)
  /\ phase \in {"hosted", "served"} =>
       /\ cartridge \in Cartridges
       /\ unseen \subseteq Handlers[cartridge]
       /\ best # None =>
            best \in Handlers[cartridge] /\ <<best, request>> \in Serves
       /\ \A c \in Handlers[cartridge] \ unseen :
            <<c, request>> \in Serves => best # None /\ ~Before(c, best)
       /\ \E c \in Handlers[cartridge] : <<c, request>> \in Serves
       /\ steady =>
            /\ chosen \in Caps
            /\ \E c \in Handlers[cartridge] :
                 <<c, request>> \in Serves /\ ~Before(chosen, c)
            /\ preferred = None =>
                 \A c \in Handlers[cartridge] :
                   <<c, request>> \in Serves => ~Before(c, chosen)
  /\ phase = "served" => unseen = {} /\ best # None
  /\ phase \in {"new", "admitted", "sent"} => best = None

IInv == TypeOK /\ Searched

-----------------------------------------------------------------------------
LEMMA TypeInit == Init => TypeOK
<1> SUFFICES ASSUME Init PROVE TypeOK
  OBVIOUS
<1>1. \A m \in Masters : InstalledUnder(m) \in SUBSET Cartridges
  BY DEF Init, InstalledUnder
<1>2. known \in [Masters -> SUBSET Cartridges]
  BY <1>1 DEF Init
<1>3. 0 \in 0..MaxChanges
  BY RoutingAssumption
<1> QED
  BY <1>2, <1>3 DEF Init, TypeOK, Phases

LEMMA TypeNext == TypeOK /\ [Next]_vars => TypeOK'
<1> SUFFICES ASSUME TypeOK, [Next]_vars PROVE TypeOK'
  OBVIOUS
<1> USE RoutingAssumption DEF TypeOK, Phases
<1>1. CASE Admit
  <2>1. \A m \in Masters : Registered(m) \subseteq Caps
    BY DEF Registered
  <2>2. MasterChoices \subseteq Caps \X Masters
    BY DEF MasterChoices, Matches, CapTable, First
  <2> QED
    BY <1>1, <2>1, <2>2 DEF Admit, Refuse, tables
<1>2. CASE Send
  <2>1. MasterChoices \subseteq Caps \X Masters
    BY DEF MasterChoices, Matches, CapTable, First
  <2>2. CASE MasterChoices = {} /\ Refuse
    BY <1>2, <2>2 DEF Send, Refuse, tables
  <2>3. ASSUME NEW e \in MasterChoices,
               chosen' = e[1], master' = e[2], phase' = "sent",
               steady' = (known[e[2]] = InstalledUnder(e[2])),
               UNCHANGED <<charged, cartridge, unseen, best>>
        PROVE  TypeOK'
    BY <1>2, <2>1, <2>3 DEF Send, tables
  <2> QED
    BY <1>2, <2>2, <2>3 DEF Send
<1>3. CASE Hosted
  <2>1. First(Matches(HostTable(master))) \subseteq Caps \X Cartridges
    BY DEF First, Matches, HostTable, InstalledUnder
  <2> QED
    BY <1>3, <2>1 DEF Hosted, Refuse, tables
<1>4. CASE Consider
  BY <1>4 DEF Consider, tables
<1>5. CASE Serve
  BY <1>5 DEF Serve, Refuse, tables
<1>6. CASE Change
  BY <1>6 DEF Change
<1>7. ASSUME NEW m \in Masters, Notify(m) PROVE TypeOK'
  BY <1>7 DEF Notify, InstalledUnder
<1>8. CASE Done \/ UNCHANGED vars
  BY <1>8 DEF Done, vars, tables
<1> QED
  BY <1>1, <1>2, <1>3, <1>4, <1>5, <1>6, <1>7, <1>8 DEF Next

\* The routing state keeps its type, for every table and every score.
THEOREM TypeCorrect == Spec => []TypeOK
  BY TypeInit, TypeNext, PTL DEF Spec

-----------------------------------------------------------------------------
(* The search.                                                             *)

\* Where the switch is up to date, its table of a master is the host's.
LEMMA TablesAgree ==
  ASSUME TypeOK, NEW m \in Masters, known[m] = InstalledUnder(m), NEW c \in Caps
  PROVE  <<c, m>> \in CapTable <=> Offers(m, c)
  BY DEF CapTable, Offers

\* What the switch chooses serves, and leads its table where no preference is.
LEMMA SwitchChooses ==
  ASSUME TypeOK, NEW e \in MasterChoices
  PROVE  /\ e[1] \in Caps /\ e[2] \in Masters /\ e = <<e[1], e[2]>>
         /\ e \in CapTable
         /\ <<e[1], request>> \in Serves
         /\ preferred = None =>
              \A f \in CapTable :
                <<f[1], request>> \in Serves => ~Before(f[1], e[1])
<1>1. e \in Matches(CapTable)
  BY DEF MasterChoices, First
<1>2. e \in CapTable /\ <<e[1], request>> \in Serves
  BY <1>1 DEF Matches
<1>3. preferred = None => e \in First(Matches(CapTable))
  BY DEF MasterChoices
<1>4. \A f \in CapTable :
        <<f[1], request>> \in Serves => f \in Matches(CapTable)
  BY DEF Matches
<1>5. e[1] \in Caps /\ e[2] \in Masters /\ e = <<e[1], e[2]>>
  BY <1>2 DEF CapTable
<1> QED
  BY <1>2, <1>3, <1>4, <1>5 DEF First

\* What the host chooses serves, and leads its table.
LEMMA HostChooses ==
  ASSUME TypeOK, NEW e \in First(Matches(HostTable(master)))
  PROVE  /\ e[1] \in Caps
         /\ e[2] \in InstalledUnder(master)
         /\ e[1] \in Handlers[e[2]]
         /\ <<e[1], request>> \in Serves
         /\ \A c \in Caps :
              Offers(master, c) /\ <<c, request>> \in Serves => ~Before(c, e[1])
<1>1. /\ e[1] \in Caps /\ e[2] \in InstalledUnder(master)
      /\ e[1] \in Handlers[e[2]] /\ <<e[1], request>> \in Serves
  BY DEF First, Matches, HostTable
<1>2. ASSUME NEW c \in Caps, Offers(master, c), <<c, request>> \in Serves
      PROVE  ~Before(c, e[1])
  <2>1. PICK k \in InstalledUnder(master) : c \in Handlers[k]
    BY <1>2 DEF Offers
  <2>2. <<c, k>> \in Matches(HostTable(master))
    BY <1>2, <2>1 DEF Matches, HostTable
  <2> QED
    BY <2>2 DEF First
<1> QED
  BY <1>1, <1>2

LEMMA SearchedInit == Init => Searched
  BY DEF Init, Searched

\* A step that leaves the request and its search alone.
LEMMA SearchKept ==
  ASSUME Searched,
         UNCHANGED <<phase, request, preferred, chosen, master, cartridge,
                     unseen, best>>,
         steady' => steady,
         phase = "sent" /\ steady' => installed' = installed
  PROVE  Searched'
  BY DEF Searched, Offers, Leads, InstalledUnder, Before, Abs, Distance

LEMMA SearchedNext == IInv /\ [Next]_vars => Searched'
<1> SUFFICES ASSUME TypeOK, Searched, [Next]_vars PROVE Searched'
  BY DEF IInv
<1> DEFINE Ranked(c, d) == ~Before(c, d)
<1>1. CASE Admit
  BY <1>1 DEF Admit, Refuse, Searched
<1>2. CASE Send
  <2>1. CASE Refuse
    BY <1>2, <2>1 DEF Send, Refuse, Searched
  <2>2. ASSUME NEW e \in MasterChoices,
               chosen' = e[1], master' = e[2], phase' = "sent",
               steady' = (known[e[2]] = InstalledUnder(e[2])),
               UNCHANGED <<charged, cartridge, unseen, best>>
        PROVE  Searched'
    <3>1. /\ UNCHANGED <<installed, known, request, preferred>>
          /\ best = None
      BY <1>2 DEF Send, tables, Searched
    <3>2. chosen' \in Caps /\ master' \in Masters
      BY <2>2, SwitchChooses
    <3>3. ASSUME steady' PROVE Offers(e[2], e[1])
      BY <2>2, <3>3, SwitchChooses, TablesAgree
    <3>4. ASSUME steady', preferred = None PROVE Leads(e[1], e[2])
      <4> SUFFICES ASSUME NEW d \in Caps, Offers(e[2], d),
                          <<d, request>> \in Serves
                   PROVE  ~Before(d, e[1])
        BY DEF Leads
      <4>1. <<d, e[2]>> \in CapTable
        BY <2>2, <3>4, SwitchChooses, TablesAgree
      <4> QED
        BY <3>4, <4>1, SwitchChooses
    <3>5. steady' => /\ Offers(master, chosen)'
                     /\ (<<chosen, request>> \in Serves)'
      BY <2>2, <3>1, <3>3, SwitchChooses DEF Offers, InstalledUnder
    <3>6. steady' /\ preferred' = None => Leads(chosen, master)'
      BY <2>2, <3>1, <3>4
         DEF Leads, Offers, InstalledUnder, Before, Abs, Distance
    <3> QED
      BY <2>2, <3>1, <3>2, <3>5, <3>6 DEF Searched
  <2> QED
    BY <1>2, <2>1, <2>2 DEF Send
<1>3. CASE Hosted
  <2>1. CASE Refuse
    BY <1>3, <2>1 DEF Hosted, Refuse, Searched
  <2>2. ASSUME NEW e \in First(Matches(HostTable(master))),
               cartridge' = e[2], unseen' = Handlers[e[2]], phase' = "hosted",
               UNCHANGED <<charged, chosen, master, best, steady>>
        PROVE  Searched'
    <3>1. /\ UNCHANGED <<request, preferred>> /\ phase = "sent" /\ best = None
      BY <1>3 DEF Hosted, Searched
    <3>2. /\ e[1] \in Caps /\ e[1] \in Handlers[e[2]]
          /\ <<e[1], request>> \in Serves /\ e[2] \in InstalledUnder(master)
      BY HostChooses
    <3>3. e[2] \in Cartridges /\ Handlers[e[2]] \subseteq Caps
      BY <3>2, RoutingAssumption DEF InstalledUnder, TypeOK
    <3>4. steady => ~Before(chosen, e[1])
      BY <3>1, HostChooses DEF Searched
    <3>5. ASSUME steady, preferred = None, NEW c \in Handlers[e[2]],
                 <<c, request>> \in Serves
          PROVE  ~Before(c, chosen)
      <4>1. Offers(master, c)
        BY <3>2 DEF Offers
      <4> QED
        BY <3>1, <3>3, <3>5, <4>1 DEF Searched, Leads
    <3>6. steady => ~Before(chosen, e[1])'
      BY <2>2, <3>1, <3>4 DEF Before, Abs, Distance
    <3>7. steady' /\ preferred' = None =>
            \A c \in Handlers[cartridge'] :
              <<c, request'>> \in Serves => ~Before(c, chosen)'
      BY <2>2, <3>1, <3>5 DEF Before, Abs, Distance
    <3>8. /\ steady' => steady /\ chosen' \in Caps
          /\ Handlers[cartridge'] \ unseen' = {}
      BY <2>2, <3>1 DEF Searched
    <3> QED
      BY <2>2, <3>1, <3>2, <3>3, <3>6, <3>7, <3>8 DEF Searched
  <2> QED
    BY <1>3, <2>1, <2>2 DEF Hosted
<1>4. CASE Consider
  <2>1. PICK c \in unseen :
          /\ unseen' = unseen \ {c}
          /\ best' = IF /\ <<c, request>> \in Serves
                        /\ best # None => ~Dominated(best, c)
                     THEN c ELSE best
    BY <1>4 DEF Consider
  <2>2. /\ phase = "hosted"
        /\ UNCHANGED <<phase, request, preferred, chosen, cartridge, steady>>
    BY <1>4 DEF Consider
  <2>3. Handlers[cartridge] \subseteq Caps /\ c \in Handlers[cartridge]
    BY <2>1, <2>2, RoutingAssumption DEF Searched, TypeOK
  <2>4. best' # None =>
          best' \in Handlers[cartridge] /\ <<best', request>> \in Serves
    BY <2>1, <2>2, <2>3 DEF Searched
  <2>5. ASSUME NEW d \in Handlers[cartridge] \ unseen', <<d, request>> \in Serves
        PROVE  best' # None /\ ~Before(d, best')
    <3>1. CASE d # c
      <4>1. best \in Caps /\ ~Before(d, best) /\ best # None
        BY <2>1, <2>2, <2>3, <2>5, <3>1 DEF Searched
      <4>2. CASE best' = best
        BY <4>1, <4>2
      <4>3. CASE best' # best
        <5>1. best' = c /\ ~Dominated(best, c)
          BY <2>1, <4>1, <4>3
        <5>2. ~Before(best, c)
          BY <2>3, <4>1, <5>1, DominatedIsNotBefore, Asymmetric
        <5> QED
          BY <2>3, <2>5, <4>1, <5>1, <5>2, NotBeforeChains, RoutingAssumption
      <4> QED
        BY <4>2, <4>3
    <3>2. CASE d = c
      <4>1. CASE best # None /\ Dominated(best, c)
        <5>1. best \in Caps
          BY <2>2, <2>3, <4>1 DEF Searched
        <5> QED
          BY <2>1, <2>3, <3>2, <4>1, <5>1, DominatedIsNotBefore
      <4>2. CASE ~(best # None /\ Dominated(best, c))
        BY <2>1, <2>3, <2>5, <3>2, <4>2, Irreflexive, RoutingAssumption
      <4> QED
        BY <4>1, <4>2
    <3> QED
      BY <3>1, <3>2
  <2>6. \A d \in Handlers[cartridge'] \ unseen' :
          <<d, request'>> \in Serves => best' # None /\ ~Before(d, best)'
    BY <2>2, <2>5 DEF Before, Abs, Distance
  <2>7. steady' =>
          /\ chosen' \in Caps
          /\ \E d \in Handlers[cartridge'] :
               <<d, request'>> \in Serves /\ ~Before(chosen, d)'
          /\ preferred' = None =>
               \A d \in Handlers[cartridge'] :
                 <<d, request'>> \in Serves => ~Before(d, chosen)'
    BY <2>2 DEF Searched, Before, Abs, Distance
  <2>8. \E d \in Handlers[cartridge'] : <<d, request'>> \in Serves
    BY <2>2 DEF Searched
  <2>9. cartridge' \in Cartridges /\ unseen' \subseteq Handlers[cartridge']
    BY <2>1, <2>2 DEF Searched
  <2> QED
    BY <2>2, <2>4, <2>6, <2>7, <2>8, <2>9 DEF Searched
<1>5. CASE Serve
  <2>1. phase = "hosted" /\ unseen = {}
    BY <1>5 DEF Serve
  <2>2. best # None
    BY <2>1 DEF Searched
  <2>3. /\ phase' = "served"
        /\ UNCHANGED <<request, preferred, chosen, cartridge, unseen, best, steady>>
    BY <1>5, <2>2 DEF Serve
  <2> QED
    BY <2>1, <2>2, <2>3 DEF Searched, Before, Abs, Distance
<1>6. CASE Change
  BY <1>6, SearchKept DEF Change
<1>7. ASSUME NEW m \in Masters, Notify(m) PROVE Searched'
  BY <1>7, SearchKept DEF Notify
<1>8. CASE Done \/ UNCHANGED vars
  BY <1>8, SearchKept DEF Done, vars, tables
<1> QED
  BY <1>1, <1>2, <1>3, <1>4, <1>5, <1>6, <1>7, <1>8 DEF Next

\* The loop's best is the best of the cartridge, and no worse and no better
\* than what the switch chose.
LEMMA SearchIsOver == IInv => ServedByTheBest
<1> SUFFICES ASSUME TypeOK, Searched, phase = "served" 
             PROVE  ServedByTheBest
  BY DEF IInv, ServedByTheBest
<1>1. /\ best \in Handlers[cartridge] /\ <<best, request>> \in Serves
      /\ \A c \in Handlers[cartridge] : 
           <<c, request>> \in Serves => ~Before(c, best)
  BY DEF Searched
<1>2. Handlers[cartridge] \subseteq Caps
  BY RoutingAssumption DEF Searched, TypeOK
<1>3. ASSUME steady PROVE ~Before(chosen, best)
  <2>1. PICK c \in Handlers[cartridge] :
          <<c, request>> \in Serves /\ ~Before(chosen, c)
    BY <1>3 DEF Searched
  <2> QED
    BY <1>1, <1>2, <1>3, <2>1, NotBeforeChains DEF Searched
<1>4. steady /\ preferred = None => ~Before(best, chosen)
  BY <1>1 DEF Searched
<1> QED
  BY <1>1, <1>3, <1>4 DEF ServedByTheBest

\* Whatever caps are registered where, however they score and however the
\* tables change on the way, what runs is the best that its cartridge has for
\* the request, and where nothing changed it is what the switch ranks first.
THEOREM Best == Spec => []ServedByTheBest
<1>1. Init => IInv
  BY TypeInit, SearchedInit DEF IInv
<1>2. IInv /\ [Next]_vars => IInv'
  BY TypeNext, SearchedNext DEF IInv
<1> QED
  BY <1>1, <1>2, SearchIsOver, PTL DEF Spec

-----------------------------------------------------------------------------
(* URNs.  A constraint allows some states of a tag, unset or set to a      *)
(* value, an URN describes the assignments of states that all of its       *)
(* constraints allow, and the program's questions about pairs of URNs are  *)
(* inclusion and intersection of what they describe.                       *)

Unset == CHOOSE u : u \notin Value

TagStates == Value \cup {Unset}

\* The states that a constraint allows.
Allows(c) ==
  CASE c.is = "optionalNot" -> TagStates \ {c.of}
    [] c.is = "present" -> Value
    [] c.is = "presentNot" -> Value \ {c.of}
    [] c.is = "exact" -> {c.of}
    [] c.is = "absent" -> {Unset}
    [] OTHER -> TagStates

\* The assignments that an URN describes.
Describes(u) ==
  {a \in [Key -> TagStates] : \A k \in Key : a[k] \in Allows(u.tags[k])}

LEMMA UnsetIsNoValue == Unset \notin Value
<1>1. \E u : u \notin Value
  BY NoSetContainsEverything
<1> QED
  BY <1>1 DEF Unset

\* Every constraint allows some state.
LEMMA AllowsSomething ==
  ASSUME NEW c \in Constraint
  PROVE  Allows(c) # {} /\ Allows(c) \subseteq TagStates
<1> USE ValuesAbound, UnsetIsNoValue DEF Allows, Constraint, Plain, Named, TagStates
<1>1. CASE c.is \in {"optionalNot", "missing", "unconstrained", "absent"}
  BY <1>1
<1>2. CASE c.is \in {"present", "exact"}
  BY <1>2
<1>3. CASE c.is = "presentNot"
  <2>1. PICK u \in Value : u # c.of
    OBVIOUS
  <2> QED
    BY <1>3, <2>1
<1> QED
  BY <1>1, <1>2, <1>3

\* The table by which constraints are matched is inclusion of what they allow.
THEOREM TagMatchIsInclusion ==
  ASSUME NEW i \in Constraint, NEW p \in Constraint
  PROVE  TagMatch(i, p) <=> Allows(i) \subseteq Allows(p)
<1> USE ValuesAbound, UnsetIsNoValue
    DEF TagMatch, Allows, Constraint, Plain, Named, TagStates
<1>1. CASE p.is = "optionalNot"
  BY <1>1
<1>2. CASE p.is = "present"
  BY <1>2
<1>3. CASE p.is = "presentNot"
  BY <1>3
<1>4. CASE p.is = "exact"
  BY <1>4
<1>5. CASE p.is = "absent"
  <2>1. CASE i.is = "absent"
    BY <1>5, <2>1
  <2>2. CASE i.is = "optionalNot"
    BY <1>5, <2>2
  <2>3. CASE i.is \in {"missing", "unconstrained"}
    BY <1>5, <2>3
  <2>4. CASE i.is \in {"present", "exact"}
    BY <1>5, <2>4
  <2>5. CASE i.is = "presentNot"
    BY <1>5, <2>5
  <2> QED
    BY <2>1, <2>2, <2>3, <2>4, <2>5
<1>6. CASE p.is \in {"missing", "unconstrained"}
  BY <1>6
<1> QED
  BY <1>1, <1>2, <1>3, <1>4, <1>5, <1>6

\* The table by which constraints meet is intersection of what they allow.
THEOREM TagMeetsIsIntersection ==
  ASSUME NEW a \in Constraint, NEW b \in Constraint
  PROVE  TagMeets(a, b) <=> Allows(a) \cap Allows(b) # {}
<1> USE ValuesAbound, UnsetIsNoValue
    DEF TagMeets, Allows, Constraint, Plain, Named, TagStates
<1>1. CASE a.is = "optionalNot"
  BY <1>1
<1>2. CASE a.is = "present"
  BY <1>2
<1>3. CASE a.is = "presentNot"
  BY <1>3
<1>4. CASE a.is = "exact"
  BY <1>4
<1>5. CASE a.is = "absent"
  BY <1>5
<1>6. CASE a.is \in {"missing", "unconstrained"}
  BY <1>6
<1> QED
  BY <1>1, <1>2, <1>3, <1>4, <1>5, <1>6

-----------------------------------------------------------------------------
(* URNs.                                                                   *)

\* A state that a constraint allows is the state of its tag in an assignment
\* that the whole URN describes.
LEMMA Describable ==
  ASSUME NEW u \in Urns, NEW k \in Key, NEW s \in Allows(u.tags[k])
  PROVE  \E a \in Describes(u) : a[k] = s
<1> DEFINE a == [l \in Key |-> IF l = k THEN s
                               ELSE CHOOSE t : t \in Allows(u.tags[l])]
<1>1. \A l \in Key : u.tags[l] \in Constraint
  BY DEF Urns
<1>2. \A l \in Key : a[l] \in Allows(u.tags[l])
  BY <1>1, AllowsSomething
<1>3. \A l \in Key : a[l] \in TagStates
  BY <1>1, <1>2, AllowsSomething
<1>4. a \in [Key -> TagStates]
  BY <1>3
<1> HIDE DEF a
<1>5. a \in Describes(u)
  BY <1>2, <1>4 DEF Describes
<1>6. a[k] = s
  BY DEF a
<1> QED
  BY <1>5, <1>6

\* One URN refines another where all it describes the other describes.
THEOREM RefinesIsInclusion ==
  ASSUME NEW a \in Urns, NEW b \in Urns
  PROVE  Refines(a, b) <=>
           a.scheme = b.scheme /\ Describes(a) \subseteq Describes(b)
<1>1. \A k \in Key : a.tags[k] \in Constraint /\ b.tags[k] \in Constraint
  BY DEF Urns
<1>2. ASSUME \A k \in Key : TagMatch(a.tags[k], b.tags[k])
      PROVE  Describes(a) \subseteq Describes(b)
  BY <1>1, <1>2, TagMatchIsInclusion DEF Describes
<1>3. ASSUME Describes(a) \subseteq Describes(b), NEW k \in Key
      PROVE  TagMatch(a.tags[k], b.tags[k])
  <2>1. ASSUME NEW s \in Allows(a.tags[k]) PROVE s \in Allows(b.tags[k])
    BY <1>3, Describable DEF Describes
  <2> QED
    BY <1>1, <2>1, TagMatchIsInclusion
<1> QED
  BY <1>2, <1>3 DEF Refines

\* Two URNs meet where there is something that both describe.
THEOREM MeetsIsIntersection ==
  ASSUME NEW a \in Urns, NEW b \in Urns
  PROVE  Meets(a, b) <=>
           a.scheme = b.scheme /\ Describes(a) \cap Describes(b) # {}
<1>1. \A k \in Key : a.tags[k] \in Constraint /\ b.tags[k] \in Constraint
  BY DEF Urns
<1>2. ASSUME \A k \in Key : TagMeets(a.tags[k], b.tags[k])
      PROVE  Describes(a) \cap Describes(b) # {}
  <2> DEFINE Both(k) == Allows(a.tags[k]) \cap Allows(b.tags[k])
             f == [k \in Key |-> CHOOSE s : s \in Both(k)]
  <2>1. \A k \in Key : Both(k) # {}
    BY <1>1, <1>2, TagMeetsIsIntersection
  <2>2. \A k \in Key : f[k] \in Both(k)
    <3> HIDE DEF Both
    <3> QED
      BY <2>1
  <2>3. \A k \in Key : f[k] \in TagStates
    BY <1>1, <2>2, AllowsSomething
  <2>4. f \in [Key -> TagStates]
    BY <2>3
  <2> HIDE DEF f
  <2>5. f \in Describes(a) /\ f \in Describes(b)
    BY <2>2, <2>4 DEF Describes
  <2> QED
    BY <2>5
<1>3. ASSUME Describes(a) \cap Describes(b) # {}, NEW k \in Key
      PROVE  TagMeets(a.tags[k], b.tags[k])
  BY <1>1, <1>3, TagMeetsIsIntersection DEF Describes
<1> QED
  BY <1>2, <1>3 DEF Meets

LEMMA RefinesItself ==
  ASSUME NEW a \in Urns PROVE Refines(a, a)
  BY RefinesIsInclusion

LEMMA RefinesChains ==
  ASSUME NEW a \in Urns, NEW b \in Urns, NEW c \in Urns,
         Refines(a, b), Refines(b, c)
  PROVE  Refines(a, c)
<1>1. Describes(a) \subseteq Describes(b) /\ Describes(b) \subseteq Describes(c)
  BY RefinesIsInclusion
<1>2. a.scheme = b.scheme /\ b.scheme = c.scheme
  BY RefinesIsInclusion
<1> QED
  BY <1>1, <1>2, RefinesIsInclusion

\* An URN that leaves nothing open.
ClosedUrn(u) == [u EXCEPT !.tags = [k \in Key |-> Closed(u.tags[k])]]

LEMMA ClosedIsUrn ==
  ASSUME NEW u \in Urns
  PROVE  /\ ClosedUrn(u) \in Urns
         /\ \A v : RefinesClosed(u, v) <=> Refines(ClosedUrn(u), v)
         /\ \A v : MeetsClosed(u, v) <=> Meets(ClosedUrn(u), v)
<1>1. \A k \in Key : u.tags[k] \in Constraint
  BY DEF Urns
<1>2. \A c \in Constraint : Closed(c) \in Constraint
  BY DEF Closed, Constraint, Plain, Named
<1>3. [k \in Key |-> Closed(u.tags[k])] \in [Key -> Constraint]
  BY <1>1, <1>2
<1>4. ClosedUrn(u) \in Urns
  BY <1>3 DEF ClosedUrn, Urns
<1>5. /\ ClosedUrn(u).scheme = u.scheme
      /\ \A k \in Key : ClosedUrn(u).tags[k] = Closed(u.tags[k])
  BY DEF ClosedUrn, Urns
<1> QED
  BY <1>4, <1>5 DEF Refines, RefinesClosed, Meets, MeetsClosed

\* What is always so is sometimes so, as every URN describes something.
LEMMA RefinesMeets ==
  ASSUME NEW a \in Urns, NEW b \in Urns, Refines(a, b)
  PROVE  Meets(a, b) /\ Meets(b, a)
<1>1. a.scheme = b.scheme /\ Describes(a) \subseteq Describes(b)
  BY RefinesIsInclusion
<1>2. Describes(a) # {}
  <2> DEFINE f == [k \in Key |-> CHOOSE s : s \in Allows(a.tags[k])]
  <2>1. \A k \in Key : a.tags[k] \in Constraint
    BY DEF Urns
  <2>2. \A k \in Key : f[k] \in Allows(a.tags[k]) /\ f[k] \in TagStates
    BY <2>1, AllowsSomething
  <2>3. f \in [Key -> TagStates]
    BY <2>2
  <2> HIDE DEF f
  <2> QED
    BY <2>2, <2>3 DEF Describes
<1> QED
  BY <1>1, <1>2, MeetsIsIntersection

-----------------------------------------------------------------------------
(* Caps.                                                                   *)

\* The grades of an answer nest: what answers a query exactly answers it, and
\* what answers it may answer it.
THEOREM GradesNest ==
  ASSUME NEW q \in Queries, NEW c \in CapUrns
  PROVE  /\ QueryAdmits(QueryExactly(q), c) => QueryAdmits(q, c)
         /\ QueryAdmits(q, c) => QueryMayAdmit(q, c)
<1>1. /\ q.in \in Asks /\ q.out \in Asks /\ q.tags \in Urns
      /\ c.in \in Urns /\ c.out \in Urns /\ c.tags \in Urns
  BY DEF Queries, CapUrns
<1>2. ASSUME NEW ask \in Asks, NEW side \in Urns
      PROVE  /\ AskAdmits(Exactly(ask), side) => AskAdmits(ask, side)
             /\ AskAdmits(ask, side) => AskMayAdmit(ask, side)
  <2>1. ask.urn \in Urns /\ ask.is \in {"unknown", "within", "covers", "same"}
    BY DEF Asks
  <2>2. AskAdmits(Exactly(ask), side) => AskAdmits(ask, side)
    BY <2>1 DEF AskAdmits, Exactly, Asks
  <2>3. AskAdmits(ask, side) => AskMayAdmit(ask, side)
    BY <2>1, RefinesMeets DEF AskAdmits, AskMayAdmit
  <2> QED
    BY <2>2, <2>3
<1>3. /\ QueryExactly(q).in = Exactly(q.in) /\ QueryExactly(q).out = Exactly(q.out)
      /\ QueryExactly(q).tags = q.tags /\ QueryExactly(q).effect = q.effect
  BY DEF QueryExactly, Queries
<1>4. RefinesClosed(c.tags, q.tags) => MeetsClosed(c.tags, q.tags)
  BY <1>1, ClosedIsUrn, RefinesMeets
<1> QED
  BY <1>1, <1>2, <1>3, <1>4 DEF QueryAdmits, QueryMayAdmit

\* A cap that serves a request serves one that sends less and asks for less:
\* what a handler registered for still holds for every narrower request.
THEOREM ServesTheLesser ==
  ASSUME NEW c \in CapUrns, NEW r \in CapUrns, NEW s \in CapUrns,
         Dispatch(c, r),
         ~Unconstrained(r.in), Refines(s.in, r.in),
         Refines(r.out, s.out), Refines(r.tags, s.tags),
         EffectOk(r.effect, s.effect)
  PROVE  Dispatch(c, s)
<1>1. /\ c.in \in Urns /\ c.out \in Urns /\ c.tags \in Urns
      /\ r.in \in Urns /\ r.out \in Urns /\ r.tags \in Urns
      /\ s.in \in Urns /\ s.out \in Urns /\ s.tags \in Urns
  BY DEF CapUrns
<1>2. /\ Refines(r.in, c.in) /\ Refines(c.out, r.out)
      /\ EffectOk(c.effect, r.effect) /\ RefinesClosed(c.tags, r.tags)
  BY DEF Dispatch, QueryAdmits, QueryOfRequest, AskUnlessOpen, AskAdmits
<1>3. Refines(s.in, c.in) /\ Refines(c.out, s.out)
  BY <1>1, <1>2, RefinesChains
<1>4. RefinesClosed(c.tags, s.tags)
  BY <1>1, <1>2, ClosedIsUrn, RefinesChains
<1>5. EffectOk(c.effect, s.effect)
  BY <1>2 DEF EffectOk
<1>6. AskAdmits(AskUnlessOpen("covers", s.in), c.in)
  BY <1>3 DEF AskUnlessOpen, AskAdmits
<1> QED
  BY <1>3, <1>4, <1>5, <1>6 DEF Dispatch, QueryAdmits, QueryOfRequest, AskAdmits

-----------------------------------------------------------------------------
(* The fabric registry by itself: what a definition names is held before   *)
(* the definition is, by induction over calls that share the caches and    *)
(* nothing else.                                                           *)

CONSTANTS CapDefs, Medias, Dims, Values, Versions, Fetches

VARIABLES declared, manifest, defs, dims, files, dimFiles, fetch

Registry == INSTANCE FabricRegistry WITH Caps <- CapDefs

\* What a call was found to need and has passed is held.
LeftHeld(f) == Registry!Resolves(fetch[f].body.refs \ fetch[f].left, dims)

\* A dim is asked for only if the manifest pins a version of it.
AskedIsPinned(f) ==
  Registry!At(f, "dim") => \A ref \in fetch[f].at : ref \in Registry!Refs /\ manifest[ref[1]] # 0

\* A media def a cap needs is in memory, yet to be looked at, or being fetched;
\* once the cap is past its media defs, in memory.
MediaAwaited(f) ==
  /\ Registry!At(f, "media") /\ ~fetch[f].failed =>
       \A m \in fetch[f].body.needs :
         \/ m \in DOMAIN defs \cup fetch[f].look
         \/ \E g \in Registry!Children(f) : fetch[g].name = m
  /\ Registry!At(f, "dims") \/ Registry!At(f, "dim") => fetch[f].body.needs \subseteq DOMAIN defs

CallSound(f) == LeftHeld(f) /\ AskedIsPinned(f) /\ MediaAwaited(f)

CallsSound == \A f \in DOMAIN fetch : CallSound(f)

RegistrySound == Registry!TypeOK /\ Registry!DimsPinned /\ Registry!DimsHeld /\ CallsSound

-----------------------------------------------------------------------------
\* A call that ends leaves the others as they were, but for the mark it may
\* leave on the one that waits for it.
LEMMA EndedFacts ==
  ASSUME Registry!TypeOK, NEW f \in DOMAIN fetch, NEW told, NEW e, e = Registry!Ended(f, told)
  PROVE  /\ DOMAIN e = DOMAIN fetch \ {f}
         /\ \A g \in DOMAIN fetch \ {f} :
              /\ e[g] \in Registry!Calls
              /\ e[g].stage = fetch[g].stage
              /\ e[g].name = fetch[g].name
              /\ e[g].parent = fetch[g].parent
              /\ e[g].body = fetch[g].body
              /\ e[g].look = fetch[g].look
              /\ e[g].left = fetch[g].left
              /\ e[g].at = fetch[g].at
              /\ fetch[g].failed => e[g].failed
              /\ g \in told => e[g].failed
<1>1. DOMAIN e = DOMAIN fetch \ {f}
  BY DEF Registry!Ended
<1>2. ASSUME NEW call \in Registry!Calls
      PROVE  /\ [call EXCEPT !.failed = TRUE] \in Registry!Calls
             /\ [call EXCEPT !.failed = TRUE].stage = call.stage
             /\ [call EXCEPT !.failed = TRUE].name = call.name
             /\ [call EXCEPT !.failed = TRUE].parent = call.parent
             /\ [call EXCEPT !.failed = TRUE].body = call.body
             /\ [call EXCEPT !.failed = TRUE].look = call.look
             /\ [call EXCEPT !.failed = TRUE].left = call.left
             /\ [call EXCEPT !.failed = TRUE].at = call.at
             /\ [call EXCEPT !.failed = TRUE].failed
  BY DEF Registry!Calls
<1>3. ASSUME NEW g \in DOMAIN fetch \ {f}
      PROVE  /\ fetch[g] \in Registry!Calls
             /\ e[g] = IF g \in told THEN [fetch[g] EXCEPT !.failed = TRUE] ELSE fetch[g]
  BY DEF Registry!Ended, Registry!TypeOK
<1>4. ASSUME NEW g \in DOMAIN fetch \ {f}
      PROVE  /\ e[g] \in Registry!Calls
             /\ e[g].stage = fetch[g].stage
             /\ e[g].name = fetch[g].name
             /\ e[g].parent = fetch[g].parent
             /\ e[g].body = fetch[g].body
             /\ e[g].look = fetch[g].look
             /\ e[g].left = fetch[g].left
             /\ e[g].at = fetch[g].at
             /\ fetch[g].failed => e[g].failed
             /\ g \in told => e[g].failed
  <2>1. CASE g \in told
    <3>1. e[g] = [fetch[g] EXCEPT !.failed = TRUE]
      BY <1>3, <2>1
    <3>. QED  BY <1>2, <1>3, <3>1
  <2>2. CASE ~(g \in told)
    <3>1. e[g] = fetch[g]
      BY <1>3, <2>2
    <3>. QED  BY <1>3, <2>2, <3>1
  <2>. QED  BY <2>1, <2>2
<1>. QED  BY <1>1, <1>4

LEMMA PlainIsBody == Registry!Plain \in Registry!Bodies
BY DEF Registry!Plain, Registry!Bodies, Registry!Pins

-----------------------------------------------------------------------------
(* What a start leaves is sound whatever it finds on the disk.              *)
LEMMA StartSound ==
  ASSUME NEW pins \in Registry!Manifests, NEW load \in Registry!Loads, Registry!TypeOK
  PROVE  /\ Registry!PinnedDims(pins) \in [Dims -> Registry!Pins]
         /\ \A d \in Dims : Registry!PinnedDims(pins)[d] # 0 => Registry!PinnedDims(pins)[d] = pins[d]
         /\ DOMAIN Registry!Retained(load, pins) \subseteq Registry!Names
         /\ \A n \in DOMAIN Registry!Retained(load, pins) :
              /\ Registry!Retained(load, pins)[n] \in Registry!Bodies
              /\ Registry!Resolves(Registry!Retained(load, pins)[n].refs, Registry!PinnedDims(pins))
<1>1. pins \in [Registry!Names \cup Dims -> Registry!Pins]
  BY DEF Registry!Manifests
<1>2. Registry!PinnedDims(pins) \in [Dims -> Registry!Pins]
  BY <1>1 DEF Registry!PinnedDims, Registry!Pins
<1>3. \A d \in Dims : Registry!PinnedDims(pins)[d] # 0 => Registry!PinnedDims(pins)[d] = pins[d]
  BY DEF Registry!PinnedDims
<1>4. /\ DOMAIN load \subseteq Registry!Names
      /\ \A n \in DOMAIN load : load[n] \in Registry!Bodies
  BY DEF Registry!Loads, Registry!TypeOK
<1>. QED  BY <1>2, <1>3, <1>4 DEF Registry!Retained

LEMMA InitRegistrySound == Registry!Init => RegistrySound
<1>. SUFFICES ASSUME Registry!Init PROVE RegistrySound
  OBVIOUS
<1>1. DOMAIN files \subseteq Registry!Names \X Registry!Pins /\ \A p \in DOMAIN files : files[p] \in Registry!Bodies
  BY PlainIsBody DEF Registry!Init, Registry!Pins
<1>2. PICK load \in Registry!Loads : defs = Registry!Retained(load, manifest)
  BY DEF Registry!Init
<1>3. /\ DOMAIN load \subseteq Registry!Names
      /\ \A n \in DOMAIN load : load[n] \in Registry!Bodies
  BY <1>1 DEF Registry!Loads
<1>4. manifest \in [Registry!Names \cup Dims -> Registry!Pins]
  BY DEF Registry!Init, Registry!Manifests
<1>5. dims \in [Dims -> Registry!Pins] /\ Registry!DimsPinned
  BY <1>4 DEF Registry!Init, Registry!PinnedDims, Registry!Pins, Registry!DimsPinned
<1>6. /\ DOMAIN defs \subseteq Registry!Names
      /\ \A n \in DOMAIN defs : defs[n] \in Registry!Bodies
      /\ Registry!DimsHeld
  BY <1>2, <1>3 DEF Registry!Retained, Registry!DimsHeld, Registry!Init
<1>7. Registry!TypeOK
  BY <1>1, <1>5, <1>6 DEF Registry!TypeOK, Registry!Init
<1>. QED
  BY <1>5, <1>6, <1>7 DEF RegistrySound, CallsSound, Registry!Init

-----------------------------------------------------------------------------
\* What a step of one call does to what the others share.
Grows ==
  /\ UNCHANGED <<declared, manifest>>
  /\ \A d \in Dims : dims[d] # 0 => dims'[d] = dims[d]
  /\ DOMAIN defs \subseteq DOMAIN defs'

LEMMA ResolvesGrows ==
  ASSUME Grows, NEW refs, refs \subseteq Registry!Refs, Registry!Resolves(refs, dims)
  PROVE  Registry!Resolves(refs, dims)'
<1>. SUFFICES ASSUME NEW ref \in refs
              PROVE  /\ dims'[ref[1]] # 0
                     /\ ref[2] \in declared'[<<ref[1], dims'[ref[1]]>>]
  BY DEF Registry!Resolves
<1>1. ref[1] \in Dims /\ dims[ref[1]] # 0 /\ ref[2] \in declared[<<ref[1], dims[ref[1]]>>]
  BY DEF Registry!Resolves, Registry!Refs
<1>. QED  BY <1>1 DEF Grows

(* A call that a step leaves as it was, but for a mark that one it waits    *)
(* for has failed, stays sound.                                             *)
LEMMA OthersStaySound ==
  ASSUME RegistrySound, Grows, NEW g \in DOMAIN fetch, g \in DOMAIN fetch',
         fetch'[g].stage = fetch[g].stage, fetch'[g].body = fetch[g].body,
         fetch'[g].look = fetch[g].look, fetch'[g].left = fetch[g].left,
         fetch'[g].at = fetch[g].at,
         fetch[g].failed => fetch'[g].failed,
         \A h \in Registry!Children(g) :
           \/ h \in Registry!Children(g)' /\ fetch'[h].name = fetch[h].name
           \/ fetch[h].name \in DOMAIN defs'
           \/ fetch'[g].failed
  PROVE  CallSound(g)'
<1>. USE DEF RegistrySound, CallsSound, CallSound
<1>1. LeftHeld(g)'
  <2>1. fetch[g].body.refs \ fetch[g].left \subseteq Registry!Refs
    BY DEF Registry!TypeOK, Registry!Calls, Registry!Bodies
  <2>2. Registry!Resolves(fetch[g].body.refs \ fetch[g].left, dims)
    BY DEF LeftHeld
  <2>. QED  BY <2>1, <2>2, ResolvesGrows DEF LeftHeld, Registry!Resolves
<1>2. AskedIsPinned(g)'
  BY DEF AskedIsPinned, Registry!At, Grows
<1>3. MediaAwaited(g)'
  <2>1. ASSUME Registry!At(g, "media")', ~fetch'[g].failed, NEW m \in fetch'[g].body.needs
        PROVE  \/ m \in DOMAIN defs' \cup fetch'[g].look
               \/ \E h \in Registry!Children(g)' : fetch'[h].name = m
    <3>1. \/ m \in DOMAIN defs \cup fetch[g].look
          \/ \E h \in Registry!Children(g) : fetch[h].name = m
      BY <2>1 DEF MediaAwaited, Registry!At
    <3>. QED  BY <2>1, <3>1 DEF Grows
  <2>2. ASSUME Registry!At(g, "dims")' \/ Registry!At(g, "dim")'
        PROVE  fetch'[g].body.needs \subseteq DOMAIN defs'
    BY <2>2 DEF MediaAwaited, Registry!At, Grows
  <2>. QED  BY <2>1, <2>2 DEF MediaAwaited
<1>. QED  BY <1>1, <1>2, <1>3

(* A call may end when its parent is told that it failed, or finds what it  *)
(* was to fetch in memory.                                                  *)
LEMMA EndStep ==
  ASSUME RegistrySound, Grows, NEW f \in DOMAIN fetch, NEW told,
         fetch' = Registry!Ended(f, told),
         fetch[f].parent \in told \/ fetch[f].name \in DOMAIN defs'
  PROVE  /\ DOMAIN fetch' \subseteq Fetches
         /\ \A g \in DOMAIN fetch' : fetch'[g] \in Registry!Calls
         /\ CallsSound'
<1>. DEFINE G == DOMAIN fetch \ {f}
<1>1. /\ DOMAIN fetch' = G
      /\ \A g \in G :
           /\ fetch'[g] \in Registry!Calls
           /\ fetch'[g].stage = fetch[g].stage
           /\ fetch'[g].name = fetch[g].name
           /\ fetch'[g].parent = fetch[g].parent
           /\ fetch'[g].body = fetch[g].body
           /\ fetch'[g].look = fetch[g].look
           /\ fetch'[g].left = fetch[g].left
           /\ fetch'[g].at = fetch[g].at
           /\ fetch[g].failed => fetch'[g].failed
           /\ g \in told => fetch'[g].failed
  <2>1. Registry!TypeOK
    BY DEF RegistrySound
  <2>2. PICK e : e = fetch' /\ e = Registry!Ended(f, told)
    OBVIOUS
  <2>3. DOMAIN e = G
    BY <2>1, <2>2, EndedFacts, Zenon
  <2>4. \A g \in G :
          /\ e[g] \in Registry!Calls
          /\ e[g].stage = fetch[g].stage
          /\ e[g].name = fetch[g].name
          /\ e[g].parent = fetch[g].parent
          /\ e[g].body = fetch[g].body
          /\ e[g].look = fetch[g].look
          /\ e[g].left = fetch[g].left
          /\ e[g].at = fetch[g].at
          /\ fetch[g].failed => e[g].failed
          /\ g \in told => e[g].failed
    BY <2>1, <2>2, EndedFacts, Zenon
  <2>. QED  BY <2>2, <2>3, <2>4
<1>2. ASSUME NEW g \in G, NEW h \in Registry!Children(g)
      PROVE  \/ h \in Registry!Children(g)' /\ fetch'[h].name = fetch[h].name
             \/ fetch[h].name \in DOMAIN defs'
             \/ fetch'[g].failed
  BY <1>1 DEF Registry!Children
<1>3. ASSUME NEW g \in G PROVE CallSound(g)'
  BY <1>1, <1>2, OthersStaySound
<1>. QED  BY <1>1, <1>3 DEF CallsSound, RegistrySound, Registry!TypeOK

(* A call may go on, or start, alone, if it is sound itself.                *)
LEMMA GoOnStep ==
  ASSUME RegistrySound, Grows, NEW f \in Fetches, NEW call \in Registry!Calls,
         DOMAIN fetch' = DOMAIN fetch \cup {f}, fetch'[f] = call,
         \A g \in DOMAIN fetch \ {f} : fetch'[g] = fetch[g],
         f \in DOMAIN fetch => /\ call.name = fetch[f].name
                               /\ call.parent = fetch[f].parent,
         CallSound(f)'
  PROVE  /\ DOMAIN fetch' \subseteq Fetches
         /\ \A g \in DOMAIN fetch' : fetch'[g] \in Registry!Calls
         /\ CallsSound'
<1>1. ASSUME NEW g \in DOMAIN fetch \ {f}, NEW h \in Registry!Children(g)
      PROVE  h \in Registry!Children(g)' /\ fetch'[h].name = fetch[h].name
  BY DEF Registry!Children
<1>2. ASSUME NEW g \in DOMAIN fetch \ {f} PROVE CallSound(g)'
  BY <1>1, OthersStaySound
<1>. QED  BY <1>2 DEF CallsSound, RegistrySound, Registry!TypeOK

-----------------------------------------------------------------------------
Quiet == UNCHANGED <<declared, manifest, defs, dims, files, dimFiles>>
CallsOK == /\ DOMAIN fetch \subseteq Fetches
           /\ \A f \in DOMAIN fetch : fetch[f] \in Registry!Calls
           /\ CallsSound

LEMMA QuietStep ==
  ASSUME RegistrySound, Quiet
  PROVE  Grows /\ (CallsOK' => RegistrySound')
BY DEF Quiet, CallsOK, RegistrySound, Grows, Registry!TypeOK, Registry!DimsPinned, Registry!DimsHeld, Registry!Resolves

LEMMA FetchingIsCall ==
  ASSUME NEW name \in Registry!Names, NEW parent \in Fetches
  PROVE  Registry!Fetching(name, parent) \in Registry!Calls
BY PlainIsBody DEF Registry!Fetching, Registry!Calls

LEMMA StartedSound ==
  ASSUME NEW f, NEW name, NEW parent, fetch'[f] = Registry!Fetching(name, parent)
  PROVE  CallSound(f)'
BY DEF CallSound, LeftHeld, AskedIsPinned, MediaAwaited, Registry!At, Registry!Resolves, Registry!Fetching, Registry!Plain

LEMMA GetSound ==
  ASSUME RegistrySound, NEW f \in Fetches, NEW name \in Registry!Names, Registry!Get(f, name)
  PROVE  RegistrySound'
<1>1. Quiet /\ Grows
  BY QuietStep DEF Registry!Get, Quiet
<1>2. /\ DOMAIN fetch' = DOMAIN fetch \cup {f}
      /\ fetch'[f] = Registry!Fetching(name, f)
      /\ \A g \in DOMAIN fetch \ {f} : fetch'[g] = fetch[g]
      /\ f \notin DOMAIN fetch
  BY DEF Registry!Get, Registry!Put
<1>3. CallSound(f)'
  BY <1>2, StartedSound
<1>4. Registry!Fetching(name, f) \in Registry!Calls
  BY FetchingIsCall
<1>. QED  BY <1>1, <1>2, <1>3, <1>4, GoOnStep, QuietStep DEF CallsOK

LEMMA BodyArrivesSound ==
  ASSUME RegistrySound, NEW f \in Fetches, NEW body \in Registry!Bodies, Registry!BodyArrives(f, body)
  PROVE  RegistrySound'
<1>1. Quiet /\ Grows
  BY QuietStep DEF Registry!BodyArrives, Quiet
<1>2. fetch[f] \in Registry!Calls /\ f \in DOMAIN fetch
  BY DEF Registry!BodyArrives, Registry!At, RegistrySound, Registry!TypeOK
<1>3. /\ DOMAIN fetch' = DOMAIN fetch \cup {f}
      /\ \A g \in DOMAIN fetch \ {f} : fetch'[g] = fetch[g]
  BY <1>2 DEF Registry!BodyArrives
<1>4. /\ fetch'[f] \in Registry!Calls
      /\ fetch'[f].name = fetch[f].name /\ fetch'[f].parent = fetch[f].parent
      /\ fetch'[f].body = body /\ fetch'[f].left = body.refs
      /\ fetch'[f].look = body.needs
      /\ fetch'[f].stage = IF fetch[f].name \in CapDefs THEN "media" ELSE "dims"
  BY <1>2 DEF Registry!BodyArrives, Registry!Calls, Registry!Bodies
<1>5. fetch[f].name \in CapDefs \/ body.needs = {}
  BY DEF Registry!BodyArrives
<1>6. CallSound(f)'
  BY <1>4, <1>5 DEF CallSound, LeftHeld, AskedIsPinned, MediaAwaited, Registry!At, Registry!Resolves
<1>. QED  BY <1>1, <1>2, <1>3, <1>4, <1>6, GoOnStep, QuietStep DEF CallsOK

LEMMA MediaCachedSound ==
  ASSUME RegistrySound, NEW f \in Fetches, NEW m \in Medias, Registry!MediaCached(f, m)
  PROVE  RegistrySound'
<1>1. Quiet /\ Grows
  BY QuietStep DEF Registry!MediaCached, Quiet
<1>2. fetch[f] \in Registry!Calls /\ f \in DOMAIN fetch /\ CallSound(f)
  BY DEF Registry!MediaCached, Registry!At, RegistrySound, Registry!TypeOK, CallsSound
<1>3. /\ DOMAIN fetch' = DOMAIN fetch \cup {f}
      /\ \A g \in DOMAIN fetch \ {f} : fetch'[g] = fetch[g]
  BY <1>2 DEF Registry!MediaCached
<1>4. /\ fetch'[f] \in Registry!Calls
      /\ fetch'[f].name = fetch[f].name /\ fetch'[f].parent = fetch[f].parent
      /\ fetch'[f].body = fetch[f].body /\ fetch'[f].left = fetch[f].left
      /\ fetch'[f].failed = fetch[f].failed
      /\ fetch'[f].look = fetch[f].look \ {m}
      /\ fetch'[f].stage = "media"
  BY <1>2 DEF Registry!MediaCached, Registry!Calls, Registry!At
<1>5. LeftHeld(f)' /\ AskedIsPinned(f)'
  BY <1>1, <1>2, <1>4 DEF CallSound, LeftHeld, AskedIsPinned, Registry!At, Registry!Resolves, Quiet
<1>6. MediaAwaited(f)'
  <2>1. \A h \in Registry!Children(f) : h \in Registry!Children(f)' /\ fetch'[h].name = fetch[h].name
    BY <1>3 DEF Registry!Children
  <2>2. m \in DOMAIN defs'
    BY <1>1 DEF Registry!MediaCached, Quiet
  <2>3. Registry!At(f, "media")
    BY DEF Registry!MediaCached
  <2>. QED  BY <1>1, <1>2, <1>4, <2>1, <2>2, <2>3 DEF CallSound, MediaAwaited, Registry!At, Quiet
<1>7. CallSound(f)'
  BY <1>5, <1>6 DEF CallSound
<1>. QED  BY <1>1, <1>2, <1>3, <1>4, <1>7, GoOnStep, QuietStep DEF CallsOK

LEMMA MediaNotInManifestSound ==
  ASSUME RegistrySound, NEW f \in Fetches, NEW m \in Medias, Registry!MediaNotInManifest(f, m)
  PROVE  RegistrySound'
<1>1. Quiet /\ Grows
  BY QuietStep DEF Registry!MediaNotInManifest, Quiet
<1>2. fetch[f] \in Registry!Calls /\ f \in DOMAIN fetch /\ CallSound(f)
  BY DEF Registry!MediaNotInManifest, Registry!At, RegistrySound, Registry!TypeOK, CallsSound
<1>3. /\ DOMAIN fetch' = DOMAIN fetch \cup {f}
      /\ \A g \in DOMAIN fetch \ {f} : fetch'[g] = fetch[g]
  BY <1>2 DEF Registry!MediaNotInManifest
<1>4. /\ fetch'[f] \in Registry!Calls
      /\ fetch'[f].name = fetch[f].name /\ fetch'[f].parent = fetch[f].parent
      /\ fetch'[f].body = fetch[f].body /\ fetch'[f].left = fetch[f].left
      /\ fetch'[f].failed
      /\ fetch'[f].stage = "media"
  BY <1>2 DEF Registry!MediaNotInManifest, Registry!Calls, Registry!At
<1>5. CallSound(f)'
  BY <1>1, <1>2, <1>4
  DEF CallSound, LeftHeld, AskedIsPinned, MediaAwaited, Registry!At, Registry!Resolves, Quiet
<1>. QED  BY <1>1, <1>2, <1>3, <1>4, <1>5, GoOnStep, QuietStep DEF CallsOK

LEMMA MediaFetchedSound ==
  ASSUME RegistrySound, NEW f \in Fetches, NEW m \in Medias, NEW g \in Fetches,
         Registry!MediaFetched(f, m, g)
  PROVE  RegistrySound'
<1>1. Quiet /\ Grows
  BY QuietStep DEF Registry!MediaFetched, Quiet
<1>2. /\ fetch[f] \in Registry!Calls /\ f \in DOMAIN fetch /\ CallSound(f)
      /\ g \notin DOMAIN fetch /\ g # f
  BY DEF Registry!MediaFetched, Registry!At, RegistrySound, Registry!TypeOK, CallsSound
<1>3. /\ DOMAIN fetch' = DOMAIN fetch \cup {g}
      /\ fetch'[g] = Registry!Fetching(m, f)
      /\ fetch'[f] = [fetch[f] EXCEPT !.look = @ \ {m}]
      /\ \A h \in DOMAIN fetch \ {f} : fetch'[h] = fetch[h]
  BY <1>2 DEF Registry!MediaFetched, Registry!Put
<1>4. /\ fetch'[f] \in Registry!Calls
      /\ fetch'[f].name = fetch[f].name /\ fetch'[f].parent = fetch[f].parent
      /\ fetch'[f].body = fetch[f].body /\ fetch'[f].left = fetch[f].left
      /\ fetch'[f].failed = fetch[f].failed
      /\ fetch'[f].look = fetch[f].look \ {m}
      /\ fetch'[f].stage = "media"
  BY <1>2, <1>3 DEF Registry!MediaFetched, Registry!Calls, Registry!At
<1>5. CallSound(g)'
  BY <1>3, StartedSound
<1>6. fetch'[g] \in Registry!Calls
  BY <1>3, FetchingIsCall DEF Registry!Names
<1>7. CallSound(f)'
  <2>1. LeftHeld(f)' /\ AskedIsPinned(f)'
    BY <1>1, <1>2, <1>4 DEF CallSound, LeftHeld, AskedIsPinned, Registry!At, Registry!Resolves, Quiet
  <2>2. \A h \in Registry!Children(f) : h \in Registry!Children(f)' /\ fetch'[h].name = fetch[h].name
    BY <1>3 DEF Registry!Children
  <2>3. g \in Registry!Children(f)' /\ fetch'[g].name = m
    BY <1>2, <1>3 DEF Registry!Children, Registry!Fetching
  <2>4. Registry!At(f, "media")
    BY DEF Registry!MediaFetched
  <2>5. MediaAwaited(f)'
    BY <1>1, <1>2, <1>4, <2>2, <2>3, <2>4 DEF CallSound, MediaAwaited, Registry!At, Quiet
  <2>. QED  BY <2>1, <2>5 DEF CallSound
<1>8. ASSUME NEW h \in DOMAIN fetch \ {f} PROVE CallSound(h)'
  <2>1. \A k \in Registry!Children(h) : k \in Registry!Children(h)' /\ fetch'[k].name = fetch[k].name
    BY <1>3, <1>4 DEF Registry!Children
  <2>. QED  BY <1>1, <1>3, <2>1, OthersStaySound
<1>9. CallsOK'
  BY <1>3, <1>4, <1>5, <1>6, <1>7, <1>8 DEF CallsOK, CallsSound, RegistrySound, Registry!TypeOK
<1>. QED  BY <1>1, <1>9, QuietStep

LEMMA FailedSound ==
  ASSUME RegistrySound, NEW f \in DOMAIN fetch, Grows, fetch' = Registry!Failed(f)
  PROVE  CallsOK'
BY EndStep DEF Registry!Failed, CallsOK

LEMMA MediaEndsSound ==
  ASSUME RegistrySound, NEW f \in Fetches, Registry!MediaEnds(f)
  PROVE  RegistrySound'
<1>1. Quiet /\ Grows
  BY QuietStep DEF Registry!MediaEnds, Quiet
<1>2. fetch[f] \in Registry!Calls /\ f \in DOMAIN fetch /\ CallSound(f)
  BY DEF Registry!MediaEnds, Registry!At, RegistrySound, Registry!TypeOK, CallsSound
<1>3. CASE fetch[f].failed
  BY <1>1, <1>2, <1>3, FailedSound, QuietStep DEF Registry!MediaEnds
<1>4. CASE ~fetch[f].failed
  <2>1. /\ DOMAIN fetch' = DOMAIN fetch \cup {f}
        /\ \A g \in DOMAIN fetch \ {f} : fetch'[g] = fetch[g]
    BY <1>2, <1>4 DEF Registry!MediaEnds
  <2>2. /\ fetch'[f] \in Registry!Calls
        /\ fetch'[f].name = fetch[f].name /\ fetch'[f].parent = fetch[f].parent
        /\ fetch'[f].body = fetch[f].body /\ fetch'[f].left = fetch[f].left
        /\ fetch'[f].stage = "dims"
    BY <1>2, <1>4 DEF Registry!MediaEnds, Registry!Calls
  <2>3. fetch[f].body.needs \subseteq DOMAIN defs
    BY <1>2, <1>4 DEF Registry!MediaEnds, CallSound, MediaAwaited
  <2>4. CallSound(f)'
    BY <1>1, <1>2, <2>2, <2>3
    DEF CallSound, LeftHeld, AskedIsPinned, MediaAwaited, Registry!At, Registry!Resolves, Quiet
  <2>. QED  BY <1>1, <1>2, <2>1, <2>2, <2>4, GoOnStep, QuietStep DEF CallsOK
<1>. QED  BY <1>3, <1>4

-----------------------------------------------------------------------------
(* A reference is passed by once its dim is held, at the version at which   *)
(* its value was looked for.                                                *)
LEMMA AfterSound ==
  ASSUME RegistrySound, Grows, NEW f \in DOMAIN fetch, NEW ref, NEW version,
         Registry!At(f, "dims") \/ Registry!At(f, "dim"),
         version # 0, dims'[ref[1]] = version,
         fetch' = Registry!After(f, ref, version)
  PROVE  CallsOK'
<1>1. fetch[f] \in Registry!Calls /\ f \in Fetches /\ CallSound(f)
  BY DEF RegistrySound, Registry!TypeOK, CallsSound
<1>2. CASE ref[2] \notin declared[<<ref[1], version>>]
  BY <1>2, FailedSound DEF Registry!After
<1>3. CASE ref[2] \in declared[<<ref[1], version>>]
  <2>1. /\ DOMAIN fetch' = DOMAIN fetch \cup {f}
        /\ \A g \in DOMAIN fetch \ {f} : fetch'[g] = fetch[g]
    BY <1>3 DEF Registry!After
  <2>2. /\ fetch'[f] \in Registry!Calls
        /\ fetch'[f].name = fetch[f].name /\ fetch'[f].parent = fetch[f].parent
        /\ fetch'[f].body = fetch[f].body
        /\ fetch'[f].left = fetch[f].left \ {ref}
        /\ fetch'[f].stage = "dims"
    BY <1>1, <1>3 DEF Registry!After, Registry!Calls
  <2>3. LeftHeld(f)'
    <3>1. fetch[f].body.refs \ fetch[f].left \subseteq Registry!Refs
      BY <1>1 DEF Registry!Calls, Registry!Bodies
    <3>2. Registry!Resolves(fetch[f].body.refs \ fetch[f].left, dims)
      BY <1>1 DEF CallSound, LeftHeld
    <3>3. \A r \in fetch[f].body.refs \ fetch[f].left :
            dims'[r[1]] # 0 /\ r[2] \in declared'[<<r[1], dims'[r[1]]>>]
      BY <3>1, <3>2, ResolvesGrows DEF Registry!Resolves
    <3>4. dims'[ref[1]] # 0 /\ ref[2] \in declared'[<<ref[1], dims'[ref[1]]>>]
      BY <1>3 DEF Grows
    <3>. QED  BY <2>2, <3>3, <3>4 DEF LeftHeld, Registry!Resolves
  <2>4. MediaAwaited(f)' /\ AskedIsPinned(f)'
    BY <1>1, <2>2 DEF CallSound, MediaAwaited, AskedIsPinned, Registry!At, Grows
  <2>. QED  BY <1>1, <2>1, <2>2, <2>3, <2>4, GoOnStep DEF CallsOK, CallSound
<1>. QED  BY <1>2, <1>3

LEMMA DimCachedSound ==
  ASSUME RegistrySound, NEW f \in Fetches, NEW ref \in Registry!Refs, Registry!DimCached(f, ref)
  PROVE  RegistrySound'
<1>1. Quiet /\ Grows
  BY QuietStep DEF Registry!DimCached, Quiet
<1>. QED  BY <1>1, AfterSound, QuietStep DEF Registry!DimCached, Registry!At, Quiet

LEMMA DimMissingSound ==
  ASSUME RegistrySound, NEW f \in Fetches, NEW ref \in Registry!Refs, Registry!DimMissing(f, ref)
  PROVE  RegistrySound'
<1>1. Quiet /\ Grows
  BY QuietStep DEF Registry!DimMissing, Quiet
<1>2. fetch[f] \in Registry!Calls /\ f \in DOMAIN fetch /\ CallSound(f) /\ Registry!At(f, "dims")
  BY DEF Registry!DimMissing, Registry!At, RegistrySound, Registry!TypeOK, CallsSound
<1>3. CASE manifest[ref[1]] = 0
  BY <1>1, <1>2, <1>3, FailedSound, QuietStep DEF Registry!DimMissing
<1>4. CASE manifest[ref[1]] # 0
  <2>1. /\ DOMAIN fetch' = DOMAIN fetch \cup {f}
        /\ \A g \in DOMAIN fetch \ {f} : fetch'[g] = fetch[g]
    BY <1>2, <1>4 DEF Registry!DimMissing
  <2>2. /\ fetch'[f] \in Registry!Calls
        /\ fetch'[f].name = fetch[f].name /\ fetch'[f].parent = fetch[f].parent
        /\ fetch'[f].body = fetch[f].body /\ fetch'[f].left = fetch[f].left
        /\ fetch'[f].at = {ref} /\ fetch'[f].stage = "dim"
    BY <1>2, <1>4 DEF Registry!DimMissing, Registry!Calls
  <2>3. CallSound(f)'
    BY <1>1, <1>2, <1>4, <2>2
    DEF CallSound, LeftHeld, AskedIsPinned, MediaAwaited, Registry!At, Registry!Resolves, Quiet
  <2>. QED  BY <1>1, <1>2, <2>1, <2>2, <2>3, GoOnStep, QuietStep DEF CallsOK
<1>. QED  BY <1>3, <1>4

(* A dim that comes at its pinned version disturbs nothing held.            *)
LEMMA PinnedKeeps ==
  ASSUME RegistrySound, NEW d \in Dims, manifest[d] # 0, Registry!Pinned(d),
         UNCHANGED <<declared, manifest, defs, files>>
  PROVE  Grows /\ dims'[d] = manifest[d] /\ (CallsOK' => RegistrySound')
<1>1. dims \in [Dims -> Registry!Pins] /\ manifest[d] \in Registry!Pins
  BY DEF RegistrySound, Registry!TypeOK, Registry!Manifests
<1>2. Grows /\ dims'[d] = manifest[d]
  BY <1>1 DEF Grows, RegistrySound, Registry!DimsPinned, Registry!Pinned
<1>3. Registry!DimsPinned'
  BY <1>1 DEF RegistrySound, Registry!DimsPinned, Registry!Pinned
<1>4. Registry!DimsHeld'
  <2>1. \A n \in DOMAIN defs : defs[n].refs \subseteq Registry!Refs /\ Registry!Resolves(defs[n].refs, dims)
    BY DEF RegistrySound, Registry!TypeOK, Registry!Bodies, Registry!DimsHeld
  <2>. QED  BY <1>2, <2>1, ResolvesGrows DEF Registry!DimsHeld
<1>5. dims' \in [Dims -> Registry!Pins] /\ dimFiles' \subseteq Dims \X Registry!Pins
  BY <1>1 DEF Registry!Pinned, RegistrySound, Registry!TypeOK
<1>. QED  BY <1>2, <1>3, <1>4, <1>5 DEF RegistrySound, Registry!TypeOK, CallsOK

LEMMA DimArrivesSound ==
  ASSUME RegistrySound, NEW f \in Fetches, NEW ref \in Registry!Refs, Registry!DimArrives(f, ref)
  PROVE  RegistrySound'
<1>1. /\ f \in DOMAIN fetch /\ Registry!At(f, "dim") /\ ref[1] \in Dims
      /\ manifest[ref[1]] # 0 /\ Registry!Pinned(ref[1])
      /\ UNCHANGED <<declared, manifest, defs, files>>
  BY DEF Registry!DimArrives, Registry!At, RegistrySound, CallsSound, CallSound, AskedIsPinned, Registry!Refs
<1>2. Grows /\ dims'[ref[1]] = manifest[ref[1]] /\ (CallsOK' => RegistrySound')
  BY <1>1, PinnedKeeps
<1>3. CallsOK'
  BY <1>1, <1>2, AfterSound DEF Registry!DimArrives
<1>. QED  BY <1>2, <1>3

LEMMA GetDimSound ==
  ASSUME RegistrySound, NEW d \in Dims, Registry!GetDim(d)
  PROVE  RegistrySound'
<1>1. Grows /\ (CallsOK' => RegistrySound')
  BY PinnedKeeps DEF Registry!GetDim
<1>2. fetch' = fetch
  BY DEF Registry!GetDim
<1>3. ASSUME NEW g \in DOMAIN fetch PROVE CallSound(g)'
  <2>1. \A h \in Registry!Children(g) : h \in Registry!Children(g)' /\ fetch'[h].name = fetch[h].name
    BY <1>2 DEF Registry!Children
  <2>. QED  BY <1>1, <1>2, <2>1, OthersStaySound
<1>. QED  BY <1>1, <1>2, <1>3 DEF CallsOK, CallsSound, RegistrySound, Registry!TypeOK

LEMMA FailsSound ==
  ASSUME RegistrySound, NEW f \in Fetches, Registry!Fails(f)
  PROVE  RegistrySound'
<1>1. Quiet /\ Grows
  BY QuietStep DEF Registry!Fails, Quiet
<1>. QED  BY <1>1, FailedSound, QuietStep DEF Registry!Fails, Registry!At

(* What is cached has all it names held already.                            *)
LEMMA CachesSound ==
  ASSUME RegistrySound, NEW f \in Fetches, Registry!Caches(f)
  PROVE  /\ RegistrySound'
         /\ \A n \in CapDefs \ DOMAIN defs :
              n \in DOMAIN defs' => defs'[n].needs \subseteq DOMAIN defs
<1>. DEFINE name == fetch[f].name
            body == fetch[f].body
<1>1. /\ fetch[f] \in Registry!Calls /\ f \in DOMAIN fetch /\ CallSound(f)
      /\ Registry!At(f, "dims") /\ fetch[f].left = {}
      /\ name \in Registry!Names /\ body \in Registry!Bodies
  BY DEF Registry!Caches, Registry!At, RegistrySound, Registry!TypeOK, CallsSound, Registry!Calls
<1>2. /\ DOMAIN defs' = DOMAIN defs \cup {name}
      /\ defs'[name] = body
      /\ \A n \in DOMAIN defs \ {name} : defs'[n] = defs[n]
  BY DEF Registry!Caches, Registry!Put
<1>3. Grows /\ UNCHANGED <<declared, manifest, dims, dimFiles>>
  BY <1>2 DEF Registry!Caches, Grows
<1>4. Registry!Resolves(body.refs, dims) /\ body.needs \subseteq DOMAIN defs
  BY <1>1 DEF CallSound, LeftHeld, MediaAwaited
<1>5. CallsOK'
  <2>1. fetch' = Registry!Ended(f, {}) /\ fetch[f].name \in DOMAIN defs'
    BY <1>2 DEF Registry!Caches
  <2>. QED  BY <1>1, <1>3, <2>1, EndStep DEF CallsOK
<1>6. Registry!DimsHeld' /\ Registry!DimsPinned'
  BY <1>2, <1>3, <1>4 DEF RegistrySound, Registry!DimsHeld, Registry!DimsPinned, Registry!Resolves
<1>7. /\ DOMAIN files' \subseteq Registry!Names \X Registry!Pins
      /\ \A p \in DOMAIN files' : files'[p] \in Registry!Bodies
  <2>1. manifest[name] \in Registry!Pins
    BY <1>1 DEF RegistrySound, Registry!TypeOK, Registry!Manifests
  <2>2. files' \in {files, Registry!Put(files, <<name, manifest[name]>>, body)}
    BY DEF Registry!Caches
  <2>. QED  BY <1>1, <2>1, <2>2 DEF Registry!Put, RegistrySound, Registry!TypeOK
<1>8. RegistrySound'
  BY <1>1, <1>2, <1>3, <1>5, <1>6, <1>7 DEF RegistrySound, Registry!TypeOK, CallsOK
<1>. QED  BY <1>2, <1>4, <1>8

LEMMA StartKeeps ==
  ASSUME RegistrySound, Registry!Start
  PROVE  RegistrySound'
<1>1. PICK pins \in Registry!Manifests, load \in Registry!Loads :
        /\ manifest' = pins
        /\ dims' = Registry!PinnedDims(pins)
        /\ defs' = Registry!Retained(load, pins)
        /\ fetch' = [f \in {} |-> 0]
        /\ UNCHANGED <<declared, files, dimFiles>>
  BY DEF Registry!Start
<1>2. Registry!TypeOK
  BY DEF RegistrySound
<1>3. Registry!TypeOK' /\ Registry!DimsPinned'
  BY <1>1, <1>2, StartSound DEF Registry!TypeOK, Registry!DimsPinned
<1>4. Registry!DimsHeld'
  BY <1>1, <1>2, StartSound DEF Registry!DimsHeld, Registry!Resolves
<1>5. CallsSound'
  BY <1>1 DEF CallsSound
<1>. QED  BY <1>3, <1>4, <1>5 DEF RegistrySound

-----------------------------------------------------------------------------
LEMMA NextRegistrySound == RegistrySound /\ [Registry!Next]_Registry!vars => RegistrySound'
<1>. SUFFICES ASSUME RegistrySound, [Registry!Next]_Registry!vars PROVE RegistrySound'
  OBVIOUS
<1>1. CASE Registry!Start
  BY <1>1, StartKeeps
<1>2. ASSUME NEW f \in Fetches, Registry!Step(f) PROVE RegistrySound'
  BY <1>2, GetSound, BodyArrivesSound, MediaCachedSound, MediaNotInManifestSound,
     MediaFetchedSound, MediaEndsSound, DimCachedSound, DimMissingSound,
     DimArrivesSound, FailsSound, CachesSound DEF Registry!Step
<1>3. ASSUME NEW d \in Dims, Registry!GetDim(d) PROVE RegistrySound'
  BY <1>3, GetDimSound
<1>4. CASE UNCHANGED Registry!vars
  BY <1>4 DEF Registry!vars, RegistrySound, Registry!TypeOK, Registry!DimsPinned, Registry!DimsHeld, Registry!Resolves, CallsSound, CallSound,
     LeftHeld, AskedIsPinned, MediaAwaited, Registry!Children, Registry!At
<1>. QED  BY <1>1, <1>2, <1>3, <1>4 DEF Registry!Next

LEMMA RegistryInvariance == Registry!Spec => []RegistrySound
BY InitRegistrySound, NextRegistrySound, PTL DEF Registry!Spec

(* The variables keep their types, whatever the disk, the manifests of the  *)
(* starts and the bodies the service serves.                                *)
THEOREM RegistryTyped == Registry!Spec => []Registry!TypeOK
<1>1. RegistrySound => Registry!TypeOK
  BY DEF RegistrySound
<1>. QED  BY <1>1, RegistryInvariance, PTL

(* The dims of every definition in memory are in memory, for any number of  *)
(* callers that fetch the same definitions at once and any starts between.  *)
THEOREM EveryDimHeld == Registry!Spec => []Registry!DimsHeld
<1>1. RegistrySound => Registry!DimsHeld
  BY DEF RegistrySound
<1>. QED  BY <1>1, RegistryInvariance, PTL

(* They are of the versions the manifest pins.                              *)
THEOREM EveryDimPinned == Registry!Spec => []Registry!DimsPinned
<1>1. RegistrySound => Registry!DimsPinned
  BY DEF RegistrySound
<1>. QED  BY <1>1, RegistryInvariance, PTL

(* No step but a start caches a cap before the media defs it references.    *)
THEOREM CapsComeLast == Registry!Spec => Registry!CapAfterMedia
<1>. DEFINE Late == \A n \in CapDefs \ DOMAIN defs :
                      n \in DOMAIN defs' => defs'[n].needs \subseteq DOMAIN defs
<1>1. ASSUME RegistrySound, [Registry!Next]_Registry!vars PROVE [Registry!Start \/ Late]_Registry!vars
  <2>1. CASE Registry!Start
    BY <2>1
  <2>2. ASSUME NEW f \in Fetches, Registry!Step(f) PROVE Late
    <3>1. CASE Registry!Caches(f)
      BY <1>1, <3>1, CachesSound
    <3>2. CASE ~Registry!Caches(f)
      BY <2>2, <3>2 DEF Registry!Step, Registry!Get, Registry!BodyArrives, Registry!MediaCached, Registry!MediaNotInManifest,
         Registry!MediaFetched, Registry!MediaEnds, Registry!DimCached, Registry!DimMissing, Registry!DimArrives, Registry!Fails
    <3>. QED  BY <3>1, <3>2
  <2>3. ASSUME NEW d \in Dims, Registry!GetDim(d) PROVE Late
    BY <2>3 DEF Registry!GetDim
  <2>. QED  BY <1>1, <2>1, <2>2, <2>3 DEF Registry!Next
<1>. QED  BY <1>1, RegistryInvariance, PTL DEF Registry!Spec, Registry!CapAfterMedia

=============================================================================
