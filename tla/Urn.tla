-------------------------------- MODULE Urn --------------------------------
(***************************************************************************)
(* Tagged URNs (TaggedUrn-*.c): a scheme and a constraint on each tag. The *)
(* program decides by tables over pairs of constraints whether what one    *)
(* URN describes is always, or sometimes, what another describes.          *)
(*                                                                         *)
(* The source keeps a sorted list of the tags that are written down and    *)
(* merges two lists, a tag of one list alone being `missing' in the other; *)
(* here an URN gives every key its constraint, `missing' where none is     *)
(* written, which the tables accept against itself.                        *)
(***************************************************************************)
EXTENDS Naturals, FiniteSetsExt

CONSTANTS
  Key,      \* names of tags
  Value,    \* values of tags
  Scheme    \* what kind of URN: media, cap tags

\* However two values are chosen there is another one, as with strings.
ASSUME ValuesAbound ==
  \A v, w \in Value : \E u \in Value : u # v /\ u # w

Plain == {"missing", "unconstrained", "present", "absent"}
Named == {"optionalNot", "presentNot", "exact"}

\* `of' is meaningful in a named constraint only.
Constraint == [is : Plain \cup Named, of : Value]

Urns == [scheme : Scheme, tags : [Key -> Constraint]]

\* An instance leaves nothing open: a tag it does not write down is not there.
Closed(c) == IF c.is = "missing" THEN [c EXCEPT !.is = "absent"] ELSE c

\* Is every state of a tag that i allows allowed by p?
TagMatch(i, p) ==
  CASE p.is = "optionalNot" ->
         \/ i.is \in {"optionalNot", "presentNot"} /\ i.of = p.of
         \/ i.is = "exact" /\ i.of # p.of
         \/ i.is = "absent"
    [] p.is = "present" -> i.is \in {"present", "presentNot", "exact"}
    [] p.is = "presentNot" ->
         \/ i.is = "presentNot" /\ i.of = p.of
         \/ i.is = "exact" /\ i.of # p.of
    [] p.is = "exact" -> i.is = "exact" /\ i.of = p.of
    [] p.is = "absent" -> i.is = "absent"
    [] OTHER -> TRUE

\* Is there a state of a tag that both allow?
TagMeets(a, b) ==
  \/ {a.is, b.is} \cap {"missing", "unconstrained"} # {}
  \/ a.is = "absent" /\ b.is \in {"absent", "optionalNot"}
  \/ b.is = "absent" /\ a.is = "optionalNot"
  \/ /\ "absent" \notin {a.is, b.is}
     /\ CASE a.is = "exact" /\ b.is = "exact" -> a.of = b.of
          [] a.is = "exact" /\ b.is \in {"optionalNot", "presentNot"}
               -> a.of # b.of
          [] b.is = "exact" /\ a.is \in {"optionalNot", "presentNot"}
               -> a.of # b.of
          [] OTHER -> TRUE

\* Everything a describes, b describes.
Refines(a, b) ==
  a.scheme = b.scheme /\ \A k \in Key : TagMatch(a.tags[k], b.tags[k])

\* The same of an instance, whose tags are all there are.
RefinesClosed(a, b) ==
  a.scheme = b.scheme /\ \A k \in Key : TagMatch(Closed(a.tags[k]), b.tags[k])

\* Something a describes, b describes.
Meets(a, b) ==
  a.scheme = b.scheme /\ \A k \in Key : TagMeets(a.tags[k], b.tags[k])

MeetsClosed(a, b) ==
  a.scheme = b.scheme /\ \A k \in Key : TagMeets(Closed(a.tags[k]), b.tags[k])

\* How much a constraint says.
TagScore(c) ==
  CASE c.is = "optionalNot" -> 1
    [] c.is = "present" -> 2
    [] c.is = "presentNot" -> 3
    [] c.is = "exact" -> 4
    [] c.is = "absent" -> 5
    [] OTHER -> 0

UrnScore(u) == MapThenSumSet(LAMBDA k : TagScore(u.tags[k]), Key)
============================================================================
