SPECIFICATION OperationsSpec
CONSTANTS
    Replicas = {r1, r2, r3}
    Messages = {m1, m2}
    Nobody = nobody
    MaxPauses = 2
    MaxCrashes = 1
    Names <- MCNames
    Ids = {1, 2, 3}
    Staff = {s1, s2}
    Files <- MCFiles
    Registrations = {"approval", "code"}
    MaxTeamSize = 1
    MaxStaffRequests = 3
    Setters = {s1, s2}
    TaskIds = {1, 2, 3}
    DatasetIds = {1, 2, 3, 4}
    ContestIds = {1, 2}
    TaskNames = {"n1", "n2", "n3"}
    Codes = {"x", "y"}
    Managers = {"checker"}
    Packages <- MCPackages
    MaxSetterRequests = 3
    NumTests = 4
    PublicTests = {1, 2}
    Subtaskings <- MCSubtaskings
    Kinds = {"Sum", "GroupMin", "GroupMul", "GroupThreshold"}
    Entrants = {1, 2, 3}
    Submitters = {1, 2}
    TokenHolders = {1}
    Adjusted = {1, 3}
    AdjustPoints = {1}
    Problemset = {1, 2}
    Results <- MCResults
    FullMarks = 2
    PartTeam <- MCTeam
    PartStart <- MCStart
    MedalShares <- MCShares
    Concealed = {3}
    Guests = {3}
    Modes = {"icpc", "max", "max_subtask", "last", "max_tokened_last"}
    PenaltyMinutes = 2
    LastMinute = 1
    MaxEvents = 3
    Contestants = {c1, c2}
    Members = {c2}
    Answerers = {w1}
    MaxDeskWrites = 3
    Solvers = {p1, p2}
    Appellants = {p1}
    Colors = {k1}
    Runners = {w1, w2}
    MaxAppeals = 1
    MaxTabs = 2
    MaxSolves = 2
    MaxHandled = 2
INVARIANTS OperationsTypeOK OneActive NoneLost StaffSound ScoresSound ContestFloorSound
PROPERTIES LeaseSettles
CHECK_DEADLOCK FALSE
