SPECIFICATION Spec
CONSTANTS
    gui = gui
    nm = nm
    usr = usr
    i1 = i1
    i2 = i2
    c1 = c1
    c2 = c2
    None = None
    NoConn = None
    Procs <- SerialProcs
    Ops <- SerialOps
    Ifaces <- OneIface
    Conns <- TwoConns
    Decisions <- SomeChoices
    Cap = 2
    StaleDecisions = FALSE
    FastReplug = TRUE
    MaxCrashes = 1
INVARIANT IInv
INVARIANT ScanCovers
INVARIANT AnsweredStaysQuiet
