--------------------------- MODULE MCRequestLoop ---------------------------
EXTENDS RequestLoop, TLC

CONSTANTS r1, r2, r3, p1, one, all

None == {}
TwoRequests == {r1, r2}
OneRequest == {r1}
ThreeRequests == {r1, r2, r3}
Third == {r3}
NoChunks == [r \in ThreeRequests |-> 0]
OnePeer == {p1}
Callers == p1 :> r1
NoCallers == [p \in None |-> r1]

\* A pool of r1's cap and the one every request goes through.
TwoPools == {one, all}
ChainsTwo == r1 :> TwoPools @@ r2 :> {all}
ChainOfOne == r1 :> TwoPools
LimitsAtStart == one :> 1 @@ all :> 1
RoomAtStart == one :> 1 @@ all :> 2
ChangeTo == {1, 2}

ChunksOfEach == r1 :> 2 @@ r2 :> 0 @@ r3 :> 0 @@ p1 :> 0
ChunksTwo == [s \in TwoRequests \cup OnePeer |-> ChunksOfEach[s]]
ChunksOne == r1 :> 2
ChainsThree == ChainsTwo @@ r3 :> {all}
============================================================================
