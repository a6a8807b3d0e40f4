SPECIFICATION Spec
CONSTANTS
    t1 = t1
    t2 = t2
    home = home
    abroad = abroad
    abroad6 = abroad6
    shop = shop
    tube = tube
    www = www
    number = number
    dot = dot
    Upstream = Upstream
    Threads <- TwoThreads
    Hosts <- AllHosts
    Addresses <- AllAddresses
    Answers <- FourAnswers
    V6 <- OneV6
    Private <- NoAddresses
    Cn <- HomeAddresses
    LiteralOf <- Numbers
    KeyOf <- Stripped
    Steady <- SteadyHosts
    ForceDirect <- Www
    ForceProxy <- Tube
    TTL = 2
    MaxTime = 3
    MaxSetBack = 1
CONSTRAINT OneHost
SYMMETRY Symmetry
INVARIANT IInv
INVARIANT MovesAreFollowed
PROPERTY HomeOnly
