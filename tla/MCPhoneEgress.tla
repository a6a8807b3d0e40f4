---------------------------- MODULE MCPhoneEgress ----------------------------
(* An instance of PhoneEgress for TLC: two phones, each of which may get an   *)
(* address in one of two networks, or the address the other has.              *)
EXTENDS PhoneEgress, TLC

CONSTANTS p, q, a1, b1, na, nb, away, pending, nobody

TwoProcs == {p, q}
TwoIfaces == {1, 2}
TwoAddrs == {a1, b1}
TwoNets == {na, nb}
TheNets == [x \in TwoAddrs |-> IF x = a1 THEN na ELSE nb]
ProcSymmetry == Permutations(TwoProcs)
=============================================================================
