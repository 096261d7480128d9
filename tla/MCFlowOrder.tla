---------------------------- MODULE MCFlowOrder ----------------------------
EXTENDS FlowOrder, TLC

CONSTANTS f1, f2

TwoFlows == {f1, f2}
FlowSymmetry == Permutations(TwoFlows)

WithLarge == {"body", "end", "large"}
============================================================================
