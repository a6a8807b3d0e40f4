---------------------------- MODULE MCPhoneTether ----------------------------
(* Instances of PhoneTether for TLC. *)
EXTENDS PhoneTether, TLC

CONSTANTS gui, nm, usr, i1, i2, c1, c2, None

OneIface  == {i1}
OneConn   == {c1}
TwoConns  == {c1, c2}

\* One process at a time, every command.
SerialProcs == {gui}
SerialOps   == [p \in SerialProcs |-> OpNames]

\* One process at a time, without the dispatcher.
QuietOps    == [p \in SerialProcs |-> {"scan", "select"}]

\* The GUI's poll, the dispatcher and a decision overlap.
RaceProcs == {gui, nm, usr}
RaceOps   == gui :> {"scan"} @@ nm :> {"guard"} @@ usr :> {"select"}

SomeChoices == {"ignore-once", "keep-current", "always-keep-current"}
OneChoice == {"always-use-phone"}
TwoChoices  == {"ignore-once", "always-keep-current"}
==============================================================================
