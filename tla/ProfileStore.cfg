SPECIFICATION Spec
CONSTANTS
    shell = shell
    api = api
    secret = secret
    none = none
    RouteIdOf <- RouteIds
    Procs <- Both
    Commands <- TheCommands
    Inputs <- SomeInputs
    Upstreams <- SomeUpstreams
    Passphrases <- OnePassphrase
    NoPassphrase = none
    MaxCrashes = 1
INVARIANT IInv
INVARIANT SuccessIsWhole
INVARIANT BlockedIsAllOrNothing
INVARIANT LocalComesFirst
INVARIANT RoutesLead
PROPERTY FreshTokenStays
