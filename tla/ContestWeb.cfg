SPECIFICATION Spec
CONSTANTS
    Servers = {s1, s2}
    Clients = {c1, c2}
    Tasks = {t1}
    Scenarios <- MCScenarios
    CacheTTL = 1
    MaxLoad = 1
SYMMETRY Swaps
INVARIANTS SessionsSound LimitsKept
PROPERTIES PhaseOrder
CHECK_DEADLOCK FALSE
