SPECIFICATION FairSpec
CONSTANTS
    gui = gui
    nm = nm
    usr = usr
    i1 = i1
    i2 = i2
    c1 = c1
    c2 = c2
    None = None
    NoConn = None
    Procs <- SerialProcs
    Ops <- QuietOps
    Ifaces <- OneIface
    Conns <- OneConn
    Decisions <- TwoChoices
    Cap = 2
    StaleDecisions = FALSE
    FastReplug = FALSE
    MaxCrashes = 0
PROPERTY PhoneIsAnnounced
