\* Either way to start the registry, three connections, and signals; a join does
\* what it should or brings the process down.
SPECIFICATION RegistryFairSpec
CONSTANTS
    k1 = k1
    k2 = k2
    k3 = k3
    Listener = Listener
    None = None
    Connections = {k1, k2, k3}
    JoinOutcomes = {"joins", "crashes"}
    UseRace = {TRUE, FALSE}
INVARIANTS
    TypeOK
    PoolHasEveryLiveThread
    KilledIsQuiet
    ExitIsQuiet
PROPERTIES
    StopsUnlessHeldUp
\* The process ends.
CHECK_DEADLOCK FALSE
