---------------------------- MODULE MCAdmission ----------------------------
EXTENDS Admission, PoolMap, TLC

CONSTANTS r1, r2, r3, r4

FourRequests == {r1, r2, r3, r4}
OnlyFirst == {r1}

\* Two caps, one of them also spelt another way, and a pool that both share.
TwoCaps == {"a", "b"}
SomeRefs == TwoCaps \cup {"A", "batch", "all"}
Spelt == [ref \in SomeRefs |-> IF ref = "A" THEN "a" ELSE IF ref \in TwoCaps THEN ref ELSE NoCap]

Manifest == [pools |-> "batch" :> <<"A", "b">>, capacities |-> "A" :> 1 @@ "all" :> 2]

ASSUME ManifestIsValid == Valid(Manifest, TwoCaps) /\ Materializes(TwoCaps, Validated(Manifest))

\* What the cartridge sends up once it runs.
Sent == PoolStates(TwoCaps, Validated(Manifest))

SentPools == DOMAIN Sent

\* r1 and r2 call the first cap, r3 the second; r4 is a dispatch to an install
\* not yet started, through its canary pool alone.
Chains ==
  [r \in {r1, r2} |-> AdmissionChain(TRUE, Sent, "a")]
    @@ r3 :> AdmissionChain(TRUE, Sent, "b")
    @@ r4 :> AdmissionChain(FALSE, NoPools, "a")

\* Before its HELLO an install has the canary; then all its pools.
ColdAndWarm == {PoolCapacities(FALSE, NoPools), PoolCapacities(TRUE, Sent)}
============================================================================
