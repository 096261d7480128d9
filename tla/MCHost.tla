------------------------------- MODULE MCHost -------------------------------
EXTENDS Host, TLC

CONSTANTS c1, c2, r1, r2

OneSlot == {c1}
TwoRequests == {r1, r2}
OneRequest == {r1}
BothOnOne == r1 :> c1 @@ r2 :> c1
OneOnOne == r1 :> c1
============================================================================
