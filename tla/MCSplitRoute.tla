----------------------------- MODULE MCSplitRoute -----------------------------
(* An instance of SplitRoute for TLC: two threads; a name that moves, a name  *)
(* that matches a pattern of both lists, and an address written as a host,    *)
(* as it is and with a dot after it, which is a name to the resolver.         *)
EXTENDS SplitRoute, TLC

CONSTANTS t1, t2, home, abroad, abroad6, shop, tube, www, number, dot

TwoThreads == {t1, t2}
AllAddresses == {home, abroad, abroad6}
OneV6 == {abroad6}
HomeAddresses == {home}
NoAddresses == {}
Dotted == <<number, dot>>
AllHosts == {<<shop>>, <<www, tube>>, <<number>>, Dotted}
Stripped == [h \in AllHosts |-> IF h = Dotted THEN <<number>> ELSE h]
SteadyHosts == {<<www, tube>>, Dotted}
Numbers == <<number>> :> home
Tube == {<<tube>>}
Www == {<<www, tube>>}
FourAnswers == {{}, {home}, {home, abroad}, {home, abroad6}}
Symmetry == Permutations(TwoThreads)

\* Bound: what happens in a behaviour is about one host (hosts share neither
\* entries nor answers).
OneHost ==
    \E h \in Hosts :
        /\ \A k \in Hosts \ {h} : moved[k] = 0 /\ (k \in Literals \cup Steady \/ answer[k] = {})
        /\ \A e \in cache : e.host = h
        /\ \A t \in Threads : thread[t].pc \in {"look", "resolve", "store", "open"} => thread[t].host = h
=============================================================================
