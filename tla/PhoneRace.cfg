SPECIFICATION FairSpec
CONSTANTS
    gui = gui
    nm = nm
    usr = usr
    i1 = i1
    i2 = i2
    c1 = c1
    c2 = c2
    None = None
    NoConn = None
    Procs <- RaceProcs
    Ops <- RaceOps
    Ifaces <- OneIface
    Conns <- OneConn
    Decisions <- OneChoice
    Cap = 2
    StaleDecisions = FALSE
    FastReplug = TRUE
    MaxCrashes = 1
INVARIANT NoSilentTakeover
INVARIANT DecisionsEnforced
INVARIANT NoDuplicatePending
PROPERTY KeepsLedger
PROPERTY NewPhoneIsAnnounced
