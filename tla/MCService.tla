------------------------------- MODULE MCService -------------------------------
(* Instances of HarbourService for TLC.                                    *)
EXTENDS HarbourService, TLC

CONSTANTS p1, p2, k1

OneProcess == {p1}
TwoProcesses == {p1, p2}
OneClient == {k1}
=============================================================================
