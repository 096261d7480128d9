------------------------------- MODULE CapUrn -------------------------------
(***************************************************************************)
(* Caps (CapDAG-Exec.c, CapDAG-Cap.c, CapDAG-Ranking.c): what a cap takes, *)
(* what it gives, its effect and its tags; which caps serve a request, how *)
(* well, and which of them is the nearest to it.                           *)
(***************************************************************************)
EXTENDS Urn, Integers

CONSTANT Media     \* the scheme of inputs and outputs

ASSUME MediaIsAScheme == Media \in Scheme

Effects == {"unspecified", "declared", "none", "patch"}

CapUrns ==
  [in : Urns, out : Urns, tags : Urns, effect : Effects]

\* What a query asks of one side of a cap.
Asks == [is : {"unknown", "within", "covers", "same"}, urn : Urns]

Queries == [in : Asks, out : Asks, tags : Urns, effect : Effects]

\* The media URN that says nothing.
MediaTop ==
  [scheme |-> Media,
   tags |-> [k \in Key |-> [is |-> "missing", of |-> CHOOSE v \in Value : TRUE]]]

Unconstrained(u) == Refines(MediaTop, u)

AskAdmits(ask, side) ==
  CASE ask.is = "unknown" -> TRUE
    [] ask.is = "within" -> Refines(side, ask.urn)
    [] ask.is = "covers" -> Refines(ask.urn, side)
    [] ask.is = "same" -> Refines(side, ask.urn) /\ Refines(ask.urn, side)

AskMayAdmit(ask, side) == ask.is = "unknown" \/ Meets(side, ask.urn)

\* The same question with no slack either way.
Exactly(ask) ==
  IF ask.is = "unknown" THEN ask ELSE [ask EXCEPT !.is = "same"]

EffectOk(offered, asked) == asked \in {"unspecified", offered}

QueryAdmits(q, c) ==
  /\ AskAdmits(q.in, c.in)
  /\ AskAdmits(q.out, c.out)
  /\ EffectOk(c.effect, q.effect)
  /\ RefinesClosed(c.tags, q.tags)

QueryMayAdmit(q, c) ==
  /\ AskMayAdmit(q.in, c.in)
  /\ AskMayAdmit(q.out, c.out)
  /\ EffectOk(c.effect, q.effect)
  /\ MeetsClosed(c.tags, q.tags)

QueryExactly(q) == [q EXCEPT !.in = Exactly(@), !.out = Exactly(@)]

QueryGrade(q, c) ==
  IF QueryAdmits(QueryExactly(q), c) THEN "exact"
  ELSE IF QueryAdmits(q, c) THEN "guaranteed"
  ELSE IF QueryMayAdmit(q, c) THEN "possible" ELSE "none"

\* An end left open is some media, not any.
AskUnlessOpen(is, u) ==
  [is |-> IF Unconstrained(u) THEN "unknown" ELSE is, urn |-> u]

QueryOfRequest(r) ==
  [in |-> AskUnlessOpen("covers", r.in), out |-> [is |-> "within", urn |-> r.out],
   tags |-> r.tags, effect |-> r.effect]

QueryOfPattern(p) ==
  [in |-> [is |-> "within", urn |-> p.in], out |-> AskUnlessOpen("covers", p.out),
   tags |-> p.tags, effect |-> p.effect]

\* The cap serves the request: it takes what is sent and gives what is asked.
Dispatch(c, r) == QueryAdmits(QueryOfRequest(r), c)

MayDispatch(c, r) == QueryMayAdmit(QueryOfRequest(r), c)

\* The cap fits the pattern.
Accepts(p, c) == QueryAdmits(QueryOfPattern(p), c)

SameSides(a, b) ==
  /\ Refines(b.in, a.in)
  /\ Refines(a.out, b.out)
  /\ EffectOk(b.effect, a.effect)
  /\ Refines(b.tags, a.tags)

Equivalent(a, b) == SameSides(a, b) /\ SameSides(b, a)

Comparable(a, b) == SameSides(a, b) \/ SameSides(b, a)

\* What one cap gives, the next takes.
Flows(c, next) == Refines(c.out, next.in)

MayFlow(c, next) == Meets(c.out, next.in)

CapScore(c) ==
  10000 * UrnScore(c.out) + 100 * UrnScore(c.in) + UrnScore(c.tags)

\* The key of a cap whose score is s where the request's is t: at least as
\* specific before less specific, then by distance.
RankingKey(s, t) == IF s >= t THEN <<0, s - t>> ELSE <<1, t - s>>

BetterKey(a, b) == a[1] < b[1] \/ (a[1] = b[1] /\ a[2] < b[2])
============================================================================
