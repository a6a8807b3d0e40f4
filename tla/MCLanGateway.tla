---------------------------- MODULE MCLanGateway ----------------------------
(* Instances of LanGateway for TLC. *)
EXTENDS LanGateway

CONSTANTS p, q, a, b, c, home, cafe, Nobody

OneProc  == {p}
TwoProcs == {p, q}
AllClients == {a, b, c}
AllNets  == {home, cafe}
OnNet    == [n \in AllNets |-> IF n = home THEN {a, b} ELSE {c}]
=============================================================================
