------------------------------ MODULE Planner ------------------------------
(***************************************************************************)
(* Finding a chain of caps from one media type to another (CSLiveCapFab.m) *)
(* and the order in which a plan is carried out (CSPlan.m).                *)
(*                                                                         *)
(* The graph is searched twice: breadth first for what a caller is told it *)
(* can reach, depth first for the chains offered when it asks how.  Where  *)
(* data is, is its type, whether it is a sequence, and whether a fan-out   *)
(* waits for the cap it is for.  The order in which edges are tried, which *)
(* is that of their caps' registration, is abstracted from.                *)
(***************************************************************************)
EXTENDS Naturals, Sequences, FiniteSets, SequencesExt

CONSTANT Conforms   \* pairs of types: what is of the first is of the second

\* An edge for a cap's main output and one for each other that has a type of
\* its own: one that carries the input unchanged has none.
AddCap(cap) ==
  {[cap |-> cap.name, from |-> cap.in, takesSeq |-> cap.takesSeq,
    to |-> output.type, givesSeq |-> output.seq] :
     output \in {cap.main} \cup {o \in cap.others : ~o.carries /\ o.type # cap.main.type}}

-----------------------------------------------------------------------------
(* Steps.  A scalar is taken for a sequence of one; a sequence is given to *)
(* a scalar cap through a fan-out, which leads back to the same type.      *)

At(type, seq, pending) == [type |-> type, seq |-> seq, pending |-> pending]

FanOut == [cap |-> "foreach"]

CanFollowForEach(edge) == ~edge.takesSeq

Outgoing(edges, at) ==
  LET takers == {e \in edges : <<at.type, e.from>> \in Conforms}
      direct == {e \in takers : /\ at.seq => e.takesSeq
                                /\ at.pending => CanFollowForEach(e)}
  IN {[by |-> e, next |-> At(e.to, e.givesSeq, FALSE)] : e \in direct}
     \cup (IF at.seq /\ \E e \in takers : ~e.takesSeq
           THEN {[by |-> FanOut, next |-> At(at.type, FALSE, TRUE)]}
           ELSE {})

-----------------------------------------------------------------------------
(* getReachableTargetsFromSource, a level of the queue at a time.          *)

Noted(found, arrivals, depth) ==
  LET types == {a[2].next.type : a \in arrivals}
      count(t) == Cardinality({a \in arrivals : a[2].next.type = t})
  IN [t \in DOMAIN found \cup types |->
        IF t \in DOMAIN found
        THEN [found[t] EXCEPT !.pathCount = @ + count(t)]
        ELSE [minDepth |-> depth, pathCount |-> count(t)]]

RECURSIVE Spread(_, _, _, _, _, _)
Spread(edges, maxDepth, level, visited, depth, found) ==
  IF level = {} \/ depth >= maxDepth THEN found
  ELSE LET steps == UNION {{<<at, step>> : step \in Outgoing(edges, at)} : at \in level}
           new == {s[2].next : s \in steps} \ visited
           \* A fan-out is not a result.
           arrivals == {s \in steps : ~s[2].next.pending}
       IN Spread(edges, maxDepth, new, visited \cup new, depth + 1,
                 Noted(found, arrivals, depth + 1))

ReachableTargets(edges, source, maxDepth, isSeq) ==
  LET start == At(source, isSeq, FALSE)
  IN Spread(edges, maxDepth, {start}, {start}, 0, <<>>)

-----------------------------------------------------------------------------
(* findPathsToExactTarget: no type and cardinality twice on a path, pending *)
(* or not, and no more than maxPaths of them.                              *)

Equivalent(a, b) == {<<a, b>>, <<b, a>>} \subseteq Conforms

Place(at) == <<at.type, at.seq>>

RECURSIVE Search(_, _, _, _, _, _, _)
Search(edges, target, limits, found, at, path, visited) ==
  IF Len(found) >= limits.paths THEN found
  ELSE IF Equivalent(at.type, target) /\ ~at.pending THEN Append(found, path)
  ELSE IF Len(path) >= limits.depth THEN found
  ELSE LET here == visited \cup {Place(at)}
           Try(sofar, step) ==
             IF Place(step.next) \in here THEN sofar
             ELSE Search(edges, target, limits, sofar, step.next, Append(path, step), here)
       IN FoldLeft(Try, found, SetToSeq(Outgoing(edges, at)))

FindPaths(edges, source, target, limits, isSeq) ==
  IF Equivalent(source, target) THEN <<>>
  ELSE Search(edges, target, limits, <<>>, At(source, isSeq, FALSE), <<>>, {})

-----------------------------------------------------------------------------
(* topologicalOrder, of a plan whose edges, from and to, are a sequence.   *)

InDegree(edges, node) == Cardinality({i \in DOMAIN edges : edges[i][2] = node})

Neighbours(edges, node) ==
  LET out == SelectSeq(edges, LAMBDA e : e[1] = node)
  IN [i \in DOMAIN out |-> out[i][2]]

\* The neighbours whose last incoming edge this was join the queue.
RECURSIVE Drain(_, _, _, _)
Drain(edges, queue, degree, result) ==
  IF queue = <<>> THEN result
  ELSE LET Visit(state, n) ==
             LET left == state.degree[n] - 1
             IN [degree |-> [state.degree EXCEPT ![n] = left],
                 queue |-> IF left = 0 THEN Append(state.queue, n) ELSE state.queue]
           after == FoldLeft(Visit, [degree |-> degree, queue |-> Tail(queue)],
                             Neighbours(edges, Head(queue)))
       IN Drain(edges, after.queue, after.degree, Append(result, Head(queue)))

Cyclic == "cycle"

TopologicalOrder(nodes, edges) ==
  LET degree == [n \in nodes |-> InDegree(edges, n)]
      first == SetToSeq({n \in nodes : degree[n] = 0})
      result == Drain(edges, first, degree, <<>>)
  IN IF Len(result) = Cardinality(nodes) THEN result ELSE Cyclic
=============================================================================
