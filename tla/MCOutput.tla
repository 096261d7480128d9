------------------------------ MODULE MCOutput ------------------------------
(* A cap with a main output and another for TLC, and handlers that do what *)
(* the streams do not refuse.                                              *)
EXTENDS Output

TwoOutputs == << "main", "extra" >>
OneOutput == << "main" >>

Plain == {}
ClosesEarly == {"closes early"}
WritesLate == {"writes late"}
Oversized == {"oversized"}

=============================================================================
