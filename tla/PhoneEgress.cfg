SPECIFICATION Spec
CONSTANTS
    p = p
    q = q
    a1 = a1
    b1 = b1
    na = na
    nb = nb
    away = away
    pending = pending
    nobody = nobody
    Procs <- TwoProcs
    Ifaces <- TwoIfaces
    Addrs <- TwoAddrs
    Nets <- TwoNets
    NetOf <- TheNets
    Absent = away
    NoAddr = pending
    None = nobody
INVARIANT AppliedEgress
INVARIANT RemovedEgress
SYMMETRY ProcSymmetry
