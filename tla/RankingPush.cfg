SPECIFICATION FairSpec
CONSTANTS
    RankingServers = {s1}
    Names = {n1, n2}
    Keys = {k1, k2}
    Vals = {v0}
    Hdrs = {h1}
    None = None
    Pages = {g1}
    Buffer = 1
    Visibilities = {"public", "hidden"}
    MaxChanges = 2
    MaxFaults = 1
    MaxCrashes = 1
    MaxRestarts = 1
    MaxTroubles = 1
    MaxSeq = 1
INVARIANTS PagesFaithful
PROPERTIES Converges
CHECK_DEADLOCK FALSE
