SPECIFICATION FairSpec
CONSTANTS
    op1 = op1
    op2 = op2
    dm = dm
    p1 = p1
    p2 = p2
    None = None
    Agents <- DaemonAgents
    Commands <- DaemonCommands
    Pids <- OnePid
    NoPid = None
    UsbConfigured = TRUE
    UsbProfile = FALSE
    PidReuse = TRUE
    MaxCrashes = 0
PROPERTY UsbRemovalLocks
PROPERTY StaleRecordCleaned
PROPERTY ProfileLossLocks
