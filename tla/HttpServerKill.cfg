\* Every handle fits an int: the joins are the intended ones.
SPECIFICATION AnsweringClientsSpec
CONSTANTS
    k1 = k1
    k2 = k2
    k3 = k3
    Listener = Listener
    None = None
    Connections = {k1, k2}
    JoinOutcomes = {"joins"}
PROPERTIES
    KillReturns
\* The server stops when it is killed, and may crash.
CHECK_DEADLOCK FALSE
