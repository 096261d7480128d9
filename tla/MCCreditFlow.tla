--------------------------- MODULE MCCreditFlow ---------------------------
EXTENDS CreditFlow

CONSTANTS w1, w2

OneWriter == {w1}
TwoWriters == {w1, w2}

Fragmented == {1, 3}
===========================================================================
