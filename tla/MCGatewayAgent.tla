--------------------------- MODULE MCGatewayAgent ---------------------------
(* Instances of GatewayAgent for TLC.  op1 and op2 are command line calls or  *)
(* API requests, dm is the systemd daemon.                                    *)
EXTENDS GatewayAgent, TLC

CONSTANTS op1, op2, dm, p1, p2, None

OnePid  == {p1}
TwoPids == {p1, p2}

\* No definition tells the pids apart, and the runs that use this check
\* invariants only.
PidSymmetry == Permutations(TwoPids)

\* A start, the daemon, and a process that starts or stops the runtime.
RaceAgents   == {op1, op2, dm}
RaceCommands ==
    op1 :> {"start"}
    @@ op2 :> {"runtimeStart", "stop"}
    @@ dm :> {"watchdog"}

\* One process at a time.
SerialAgents   == {op1}
SerialCommands == [a \in SerialAgents |-> CommandNames]

\* The daemon and one operator.
DaemonAgents   == {op1, dm}
DaemonCommands == op1 :> {"start", "stop", "runtimeStart", "import"}
                  @@ dm :> {"watchdog"}
=============================================================================
