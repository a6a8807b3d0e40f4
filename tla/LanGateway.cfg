SPECIFICATION Spec
CONSTANTS
    p = p
    q = q
    a = a
    b = b
    c = c
    home = home
    cafe = cafe
    Nobody = Nobody
    None = Nobody
    Clients <- AllClients
    Nets <- AllNets
    ClientsOn <- OnNet
    Procs <- TwoProcs
INVARIANT OneClient
INVARIANT IInv
INVARIANT SuccessSettles
