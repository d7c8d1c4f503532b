SPECIFICATION Spec
CONSTANTS
    Wallets = {w}
    MaxRestartAttempts = 3
    MaxOps = 3
    MaxErrors = 1
    MaxCrashes = 1
    Presets = {balanced, aggressive}
    Balanced = balanced
    NoPreset = NoPreset
    Custom = Custom
    Cycles = 3
    MaxChanges = 2
    MaxFailures = 2
    Names <- MCNames
    Requests = {r1, r2}
    MaxDeaths = 1
    PageRequests = {r1}
    NoRequest = NoRequest
    MaxFaults = 1
    Endpoints = 3
    Priority <- MCPriority
    Latencies = {0, 1}
    Callers = {c1}
    MaxTurns = 2
    Checks = {k1, k2, k3}
    PoolSize = 2
    VSol0 = 3
    VTok0 = 10
    RTok0 = 7
    U64 = 48
    Bps = 8
    Slippages = {1, 8}
    Prices = {1, 4}
    Unit = 4
    Limit = 4
    MaxHistory = 5
    Lookback = 3
    Short = 2
    Long = 3
    MinSeries = 3
    MaxCurve = 3
    NoLimit = NoLimit
    Overrides <- MCOverrides
CHECK_DEADLOCK FALSE
INVARIANTS
    ServersTypeOK
    WalletsAreSupervised
    TablesAgree
    OperatorIsObeyed
    AnsweredHoldsNone
    QuotesAreSound
    BacktestIsTrue
PROPERTIES
    ServerSteps
    ServersSettle
