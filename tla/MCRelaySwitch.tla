--------------------------- MODULE MCRelaySwitch ---------------------------
EXTENDS RelaySwitch, TLC

CONSTANTS m1, m2, r1, r2, p1

OneMaster == {m1}
TwoMasters == {m1, m2}
Ranks == m1 :> 1 @@ m2 :> 2
RankOfOne == m1 :> 1

NoRequests == {}
OneRequest == {r1}
TwoWithPeer == {r1, r2, p1}

Callers == r1 :> r1 @@ r2 :> r2 @@ p1 :> r1

ServesNone == [r \in NoRequests |-> OneMaster]
ServesOne == [r \in OneRequest |-> OneMaster]
ServesHere == [r \in TwoWithPeer |-> OneMaster]
ServesApart == [r \in TwoWithPeer |-> IF r = p1 THEN {m2} ELSE {m1}]

ParentNone == [r \in NoRequests |-> r]
ParentOne == [r \in OneRequest |-> r]
ParentAll == [r \in TwoWithPeer |-> Callers[r]]

Fits == {}
FirstTooLarge == {r1}
SecondTooLarge == {r2}
============================================================================
