------------------------------ MODULE MC_Iperf ------------------------------
(***************************************************************************)
(* Iperf with a longer and a shorter UDP test that may share an endpoint,  *)
(* and with four TCP connections.                                         *)
(***************************************************************************)
EXTENDS Iperf

CONSTANTS t1, t2, e1

\* The endpoints are interchangeable: the first test has the first one.
EndpointsOfTest == [t \in Tests |-> IF t = t1 THEN {e1} ELSE Endpoints]

AmountOfTest == [t \in Tests |-> IF t = t1 THEN 2 ELSE 0]
=============================================================================
