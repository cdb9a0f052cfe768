--------------------------- MODULE MCRelayCircuits --------------------------
(* RelayCircuits on small instances: the dials each peer may start and the  *)
(* reservation sessions it may open.                                        *)
EXTENDS CircuitSessions

OneDialEach == <<1, 1>>
TwoDialsEach == <<2, 2>>
LowerRedials == <<2, 1>>
ThreeWay == <<0, 1, 1>>

OneSessionEach == [p \in Peers |-> 1]
LowerReconnects == <<2, 1>>
=============================================================================
