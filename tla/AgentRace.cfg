SPECIFICATION Spec
CONSTANTS
    op1 = op1
    op2 = op2
    dm = dm
    p1 = p1
    p2 = p2
    None = None
    Agents <- RaceAgents
    Commands <- RaceCommands
    Pids <- TwoPids
    NoPid = None
    UsbConfigured = FALSE
    UsbProfile = TRUE
    PidReuse = TRUE
    MaxCrashes = 1
INVARIANT NoOrphan
INVARIANT StopSettles
INVARIANT IInv
INVARIANT AtMostOneChild
SYMMETRY PidSymmetry
