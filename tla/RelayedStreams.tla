--------------------------- MODULE RelayedStreams ---------------------------
(***************************************************************************)
(* What the two peers of a relayed connection may rely on.  Each of them   *)
(* gets what the other one sent, in order and without a hole, but for what *)
(* may be forgotten before its first unit.  A connection that the end of   *)
(* one peer's stream ended has passed on all of that stream; any other end *)
(* may drop what was on its way.  After the end nothing is passed on.      *)
(***************************************************************************)
EXTENDS Integers

CONSTANTS
    Dirs,      \* the directions of the connection
    MayForget  \* those whose first units may be forgotten

VARIABLES
    sent, passed, dropped,  \* units of each direction
    over                    \* "no", the direction whose end ended it, or "cut"

left(d) == sent[d] - passed[d] - dropped[d]  \* units on their way

Init ==
    /\ sent = [d \in Dirs |-> 0] /\ passed = sent /\ dropped = sent
    /\ over = "no"

Send(d) ==
    /\ over = "no"
    /\ sent' = [sent EXCEPT ![d] = @ + 1]
    /\ UNCHANGED <<passed, dropped, over>>

Pass(d) ==
    /\ over = "no"
    /\ \E n \in 1 .. left(d) : passed' = [passed EXCEPT ![d] = @ + n]
    /\ UNCHANGED <<sent, dropped, over>>

Forget(d) ==
    /\ over = "no" /\ d \in MayForget /\ passed[d] = 0 /\ dropped[d] = 0
    /\ \E n \in 1 .. left(d) : dropped' = [dropped EXCEPT ![d] = n]
    /\ UNCHANGED <<sent, passed, over>>

End(d) ==
    /\ over = "no" /\ left(d) = 0
    /\ over' = d
    /\ UNCHANGED <<sent, passed, dropped>>

\* A last write may have taken a part.
Cut(d) ==
    /\ over = "no"
    /\ \E n \in 0 .. left(d) : \E m \in 0 .. left(d) - n :
          /\ passed' = [passed EXCEPT ![d] = @ + n]
          /\ dropped' = [dropped EXCEPT ![d] = @ + m]
    /\ over' = "cut"
    /\ UNCHANGED sent

Next == \E d \in Dirs : Send(d) \/ Pass(d) \/ Forget(d) \/ End(d) \/ Cut(d)

Spec == Init /\ [][Next]_<<sent, passed, dropped, over>>
=============================================================================
