CONSTANTS
    t1 = t1
    t2 = t2
    Handlers = {h1, h2, h3}
    Throwers = {h2}
    Pooled = {h3}
    Keys = {k1, k2}
    Publishers = {p1}
    MaxPooled = 1
    Scheduled = {t1, t2}
    TaskNames = {"n1"}
    NameOf <- TwoOfOneName
    BadCron = {t2}
    Unparsable = {t2}
    Distant = {t1}
    MaxRuns = 2
    Radix <- SmallCalendar
    WeekDays = 7
    Expressions <- SomeExpressions
    Starts = {0, 3, 7, 26, 38}
    MaxIterations = 80
    Types = {"A", "B"}
    Names = {"x"}
    NoName = ""
    Offers <- SomeOffers
    MaxObjects = 2
    MaxScopes = 1
    MaxNesting = 2
    Libraries = {"a", "b", "c", "d", "e"}
    PluginIds = {"p", "q"}
    LibraryOf <- SomeLibraries
    Unopenable = {"d"}
    MaxLive = 2
    MainFiles = 2
    EnvironmentFiles = 1
    ProfileJson = 1
    ConfigJson = 2
    Settings = {"v", "w"}
    Contents = {"v"}
    Edits = {"null", "nested"}
    EnvPrefixes = {"SOUL_", "APP_"}
    SetUnder = {"APP_"}
    EnvValue = "v"
    KeyIsPlain = TRUE
    Setters = {t1}
    Watcher = t2
    MaxLayers = 2
    MaxEdits = 1
    MaxTokens = 1
    MaxChanges = 1
    Source = "nacos"
    MaxTimers = 2
    MaxVersions = 3
    MaxCalls = 2
    MaxLocal = 1
    MaxThen = 2
    ThenThreads = 1
    Successes = {"s1", "s2"}
    Failures = {"f1"}
    Raisers = {"s1"}
    MaxJobs = 3
    MaxWorkers = 2
    MaxStarts = 2
    Operators = {o1, o2}
    Monitors = {m1}
    MaxSpawned = 2
    Samples = {0, 1, 2, 5}
    Boundaries <- TwoBoundaries
    LabelSets = {a1}
    Grid = 4
    MaxObserved = 3
    MaxCount = 1
    MaxFiles = 2
    MaxSize = 2
    Lengths = {1, 2}
    MaxRecords = 4
    MaxProcesses = 2
    MaxSpans = 3
    Threads = {t1, t2}
    Signals = {"SEGV", "ABRT"}
    MaxCallbacks = 2
    MaxLaunches = 2
    MaxInstalls = 2
    Lift = 1
    MaxAway = 1
    MaxAsked = 2
    Widgets = {w1, w2}
    Pages = {p1, p2, p3}
    MaxTitles = 5
    Updaters = {t1, t2}
    Properties = {1, 2, 3}
    MaxUpdates = 4
    Items = {"a", "b"}
    MaxItems = 6
    ToastCount = 2
    MaxShows = 2
    Travel = 2
SPECIFICATION RuntimeSpec
INVARIANTS DispatchSound LifetimesSound ObservabilitySound ScreenSound
PROPERTIES WatchedCatchesUp EverythingSettles
CHECK_DEADLOCK FALSE
