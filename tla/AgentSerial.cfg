SPECIFICATION Spec
CONSTANTS
    op1 = op1
    op2 = op2
    dm = dm
    p1 = p1
    p2 = p2
    None = None
    Agents <- SerialAgents
    Commands <- SerialCommands
    Pids <- TwoPids
    NoPid = None
    UsbConfigured = TRUE
    UsbProfile = TRUE
    PidReuse = TRUE
    MaxCrashes = 2
INVARIANT ManifestOutlivesChild
PROPERTY LifecycleSpec
