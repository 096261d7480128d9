----------------------------- MODULE MCLiveFeed -----------------------------
(* One live feed for TLC: both overrun policies, with and without a limit  *)
(* on the items and on the time.                                           *)
EXTENDS LiveFeed

AllSelectors == [policy : {"drop-oldest", "fail"}, maxItems : {0, 4},
                 timed : BOOLEAN]

Endless == {[policy |-> "drop-oldest", maxItems |-> 0, timed |-> FALSE]}

=============================================================================
