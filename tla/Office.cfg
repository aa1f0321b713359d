SPECIFICATION OfficeSpec
CONSTANTS
    Contents = {0, 1, 2, 3}
    AuditPage = 2
    OldEntries = 3
    OldContents = {0, 1}
    MaxEntries = 5
    Admins = {"x", "y", "z"}
    FirstAccounts <- MCFirst
    FirstLogin <- MCLogin
    Browsers = {"b1", "b2"}
    WebServers = {"s1", "s2"}
    Roles = {"all", "read_only"}
    Forms <- MCForms
    TTL = 1
    FailureLimit = 1
    MaxRequests = 3
    MaxTicks = 1
    MaxFaults = 1
    Digests = {1, 2}
    ChunkRows = 1
    Releases = 2
    MaxRows = 2
    MaxRestores = 1
    MaxMishaps = 1
    NumContests = 2
    ContestNames = {"a", "b"}
    Organizers = {"o1", "o2"}
    Values = {1}
    Extensions <- MCExtensions
    WebFronts = {w1}
    ViewTTL = 1
    MaxEdits = 3
    MaxViewTicks = 2
    MaxLostEvents = 3
    Directories <- MCDirs
    ConfigTasks = {"t1", "t2"}
    FirstTasks <- MCTasks
    PackageContents = {"A", "B"}
    MaxApplies = 3
    MaxTouches = 1
    MaxApplyFailures = 1
    Importers = {"i1", "i2"}
    ImportNames <- MCImportNames
    TaskSuffixes <- MCSuffixes
    FirstRows <- MCRows
    MaxExports = 1
    MaxMoves = 1
    MaxImportFailures = 1
    TokenKinds = {0,1}
    K = 2
    W = 3
    MinShared = 2
    CommonLeast = 2
    ReportLimit = 2
    Coders = {1,2,3}
    CoderTeam <- MCCoderTeam
    Reports <- MCReports
    Thresholds = {50, 100}
    Readers = {a,b,c}
    Author = a
    Group = {a, b}
    Delegations = {d1, d2}
    Delegation = d1
    ContestForms <- MCContestForms
    TestCases = {t1, t2}
    PublicCases = {t1}
    FullScore = 2
    OtherResult <- MCOther
    MaxFormEdits = 1
    Formats <- MCFormats
    IntakeForms <- MCIntakeForms
    SourceLimit = 3
    ContestLimit = 2
    RequestLimit = 4
    Deserves <- MCDeserves
    Submitting = {"q1", "q2"}
    MaxTaken = 3
    MaxReviews = 1
INVARIANTS OfficeTypeOK OfficeAccountsSound RecordsSound ConfigurationSound
CHECK_DEADLOCK FALSE
