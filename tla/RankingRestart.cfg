SPECIFICATION RankingSpec
CONSTANTS
    RankingServers = {s1}
    Names = {n1}
    Keys = {k1, k2}
    Vals = {v0}
    Hdrs = {h1}
    None = None
    Pages = {g1}
    Buffer = 1
    Visibilities = {"public", "hidden"}
    MaxChanges = 2
    MaxFaults = 1
    MaxCrashes = 0
    MaxRestarts = 1
    MaxTroubles = 2
    MaxSeq = 1
INVARIANT PagesAgree
CHECK_DEADLOCK FALSE
