----------------------------- MODULE MCRouting -----------------------------
EXTENDS Routing, CapUrn, SequencesExt

CONSTANTS m1, m2, k1, k2, k3

MCKey == {"kind", "list"}
MCValue == {"a", "b", "z"}

MCScheme == {"media", "cap"}

C(is, v) == [is |-> is, of |-> v]
Open == C("missing", "a")
Exact(v) == C("exact", v)

MediaUrn(kind, list) ==
  [scheme |-> "media",
   tags |-> [k \in MCKey |-> IF k = "kind" THEN kind ELSE list]]

Tags(kind) ==
  [scheme |-> "cap",
   tags |-> [k \in MCKey |-> IF k = "kind" THEN kind ELSE Open]]

Cap(in, out, tags, effect) ==
  [in |-> in, out |-> out, tags |-> tags, effect |-> effect]

\* What cartridges register: a cap that takes anything, two as specific as each
\* other that take one thing each, one that gives lists and a tagged one.
General == Cap(MediaUrn(Open, Open), MediaUrn(Exact("b"), Open), Tags(Open), "declared")
Special ==
  Cap(MediaUrn(Exact("a"), Open), MediaUrn(Exact("b"), Open), Tags(Open), "declared")
Twin ==
  Cap(MediaUrn(Open, Exact("a")), MediaUrn(Exact("b"), Open), Tags(Open), "declared")
Listing ==
  Cap(MediaUrn(C("present", "a"), Open), MediaUrn(Exact("b"), C("present", "a")),
      Tags(Open), "declared")
Tagged ==
  Cap(MediaUrn(C("present", "a"), Open), MediaUrn(Exact("b"), C("absent", "a")),
      Tags(Exact("a")), "declared")
\* Asked for, never registered.
Wish == Cap(MediaUrn(Exact("a"), C("absent", "a")), MediaUrn(C("presentNot", "z"), Open),
            Tags(Open), "unspecified")

MCCaps == {General, Special, Twin, Listing, Tagged, Wish}

MCServes == {p \in MCCaps \X MCCaps : Dispatch(p[1], p[2])}
MCEquivalents == {p \in MCCaps \X MCCaps : Equivalent(p[1], p[2])}
MCScore == [c \in MCCaps |-> CapScore(c)]

MCHost == k1 :> m1 @@ k2 :> m1 @@ k3 :> m2
MCHandlers ==
  k1 :> {General, Special} @@ k2 :> {General, Tagged}
    @@ k3 :> {Twin, Special, Listing}

-----------------------------------------------------------------------------
(***************************************************************************)
(* The tables of Urn against what they stand for: a constraint allows some *)
(* states of a tag, unset or set to a value, and an URN describes the      *)
(* assignments of states that every constraint of it allows.               *)
(***************************************************************************)
States == MCValue \cup {"unset"}

Allowed(c) ==
  CASE c.is \in {"missing", "unconstrained"} -> States
    [] c.is = "optionalNot" -> States \ {c.of}
    [] c.is = "present" -> MCValue
    [] c.is = "presentNot" -> MCValue \ {c.of}
    [] c.is = "exact" -> {c.of}
    [] c.is = "absent" -> {"unset"}

\* A value that no constraint names is there in every set of strings.
Written == {c \in Constraint : c.of # "z"}

ASSUME TagMatchIsInclusion ==
  \A i, p \in Written : TagMatch(i, p) <=> Allowed(i) \subseteq Allowed(p)

ASSUME TagMeetsIsIntersection ==
  \A a, b \in Written : TagMeets(a, b) <=> Allowed(a) \cap Allowed(b) # {}

\* What a query grades better it grades at least as well as the next: a cap
\* exactly asked for is admitted, and one admitted may be.
Sample == {Cap(i, o, t, e) :
             i \in {General.in, Special.in, Tagged.in, Wish.in},
             o \in {General.out, Listing.out, Tagged.out, Wish.out},
             t \in {Tags(Open), Tags(Exact("a")), Tags(Exact("b"))},
             e \in {"unspecified", "declared"}}

ASSUME GradesNest ==
  \A q \in {QueryOfRequest(r) : r \in Sample}, c \in Sample :
    /\ QueryAdmits(QueryExactly(q), c) => QueryAdmits(q, c)
    /\ QueryAdmits(q, c) => QueryMayAdmit(q, c)
    /\ QueryGrade(q, c) \in {"exact", "guaranteed"} <=> QueryAdmits(q, c)

-----------------------------------------------------------------------------
(***************************************************************************)
(* The planner's two searches against each other and against what they     *)
(* are about, in every graph of up to three edges over two types and one   *)
(* that both are of.                                                       *)
(***************************************************************************)
Types == {"page", "text", "any"}

P == INSTANCE Planner WITH
  Conforms <- {<<t, u>> \in Types \X Types : u \in {t, "any"}}

EveryCap ==
  [name : {"cap"}, in : Types, takesSeq : BOOLEAN,
   main : [type : Types \ {"any"}, seq : BOOLEAN],
   others : {{}, {[type |-> "text", seq |-> TRUE, carries |-> FALSE]}}]

EveryEdge == UNION {P!AddCap(cap) : cap \in EveryCap}

Graphs == UNION {kSubset(n, EveryEdge) : n \in 1..3}

Depth == 4

\* What caps make of some data in exactly so many steps, where a scalar cap
\* that is given a sequence takes two.
Made(edges, source, isSeq) ==
  LET into(e, data) == data[1] = e.from \/ e.from = "any"
      made[n \in 0..Depth] ==
        IF n = 0 THEN {<<source, isSeq>>}
        ELSE {<<e.to, e.givesSeq>> : e \in
               {f \in edges :
                  \/ \E d \in made[n - 1] : into(f, d) /\ (d[2] => f.takesSeq)
                  \/ n > 1 /\ ~f.takesSeq /\ \E d \in made[n - 2] : into(f, d) /\ d[2]}}
  IN made

\* What a caller is told it can reach, and in how few steps, is what can be made.
ASSUME ToldIsMade ==
  \A edges \in Graphs, source \in Types, isSeq \in BOOLEAN :
    LET told == P!ReachableTargets(edges, source, Depth, isSeq)
        made == Made(edges, source, isSeq)
        lengths(t) == {n \in 1..Depth : \E d \in made[n] : d[1] = t}
    IN \A t \in Types :
         /\ t \in DOMAIN told <=> lengths(t) # {}
         /\ t \in DOMAIN told => told[t].minDepth = Min(lengths(t))

\* There is a chain to whatever else a caller is told it can reach, the shortest
\* as long as it was told, and each fan-out of it is for a cap that needs it.
ASSUME SearchesAgree ==
  \A edges \in Graphs, source \in Types, isSeq \in BOOLEAN :
    LET told == P!ReachableTargets(edges, source, Depth, isSeq)
        chains(t) ==
          ToSet(P!FindPaths(edges, source, t, [paths |-> 20, depth |-> Depth], isSeq))
    IN \A t \in Types \ {source} :
         /\ t \in DOMAIN told <=> chains(t) # {}
         /\ t \in DOMAIN told => told[t].minDepth = Min({Len(c) : c \in chains(t)})
         /\ \A c \in chains(t) : \A i \in DOMAIN c :
              c[i].by = P!FanOut => i < Len(c) /\ c[i + 1].by # P!FanOut /\ ~c[i + 1].by.takesSeq

\* A plan is put in an order that respects all its edges, or it has a cycle.
Nodes == {"n1", "n2", "n3"}

Plans == UNION {[1..n -> Nodes \X Nodes] : n \in 0..4}

HasCycle(edges) ==
  \E some \in SUBSET Nodes \ {{}} :
    \A n \in some : \E i \in DOMAIN edges : edges[i][2] = n /\ edges[i][1] \in some

ASSUME PlansAreOrdered ==
  \A edges \in Plans :
    LET order == P!TopologicalOrder(Nodes, edges)
        place(n) == CHOOSE i \in DOMAIN order : order[i] = n
    IN IF HasCycle(edges) THEN order = P!Cyclic
       ELSE /\ {order[i] : i \in DOMAIN order} = Nodes
            /\ \A i \in DOMAIN edges : place(edges[i][1]) < place(edges[i][2])
=============================================================================
