SPECIFICATION ServicesSpec
CONSTANTS
    None = None
    IPs = {"home", "away"}
    Subjects = {"s1"}
    Attempts = {"a1", "a2"}
    Mixes <- MixesOfRoutes
    Max <- FivePerName
    LimitWindow <- OneEach
    Day = 1
    Owner = "home"
    SessionIdle = 5
    MaxAge = 12
    Slack = 1
    Skews <- SkewsOfOne
    Horizon = 16
    Owners = {"o1", "o2"}
    Coverages = {"c1", "c2"}
    ShareTokens = {"t1", "t2"}
    Visits = {"r1"}
    TokenIds = {"t1", "t2", "t3"}
    Resources = {"x1"}
    Calls = {"r1", "r2"}
    MaxTokens = 1
    TileKeys = {"k1"}
    Addresses = {"ip1"}
    Fetches = {"r1", "r2"}
    Budget = 2
    MissWindow = 2
    Refreshers = {"p1", "p2"}
    Every = 2
    Retry = 1
    TileNames = {"n", "m"}
    Spacings = {30, 90}
    Default = 30
    MaxTiles = 1
    Paths <- PathsOfTiles
    Radials = {"east", "west"}
    Analyses = {"l1"}
    Computations = {"c1"}
    Instances = {"i1", "i2"}
    Releases = {{1}, {1, 2}, {1, 3}}
    Goroutines = {"g1", "g2"}
    Handlers = {"h1"}
    Cells = 4
    MapWorkers = {"w1", "w2"}
    Hours <- HoursOfRequest
    Frequencies <- FrequenciesOfRequest
    Distances = {1000, 2000, 2001, 3800, 4000, 4001, 7000, 7001, 9000, 9001}
    Dmaxes = {3500, 4000}
    Horizons = {2553, 4000}
CHECK_DEADLOCK FALSE
INVARIANTS
    BurstBounded GuessesBounded NameCharged SessionEnds SessionLasts SeesReleased RevokedStays PanicOnlyRaced
    StoppedAtOnce TokensListed MissBudget ValuesRecover StepMeasured WholeCoverage StartsClean CleanupLast
    ValuesOfThisRun MapWhole
