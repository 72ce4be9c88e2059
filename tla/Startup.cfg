CONSTANTS
    m1 = m1
    m2 = m2
    m3 = m3
    na = na
    nb = nb
    nc = nc
    Modules <- Three
    Names <- Abc
    Declarations <- Shapes
    MaxUses = 3
    RunsFrom = {"never", "once"}
    MainFiles = 2
    EnvironmentFiles = 1
    ProfileJson = 1
    ConfigJson = 2
    Settings = {"w"}
    Contents = {"nested"}
    Edits = {"null", "missing"}
    EnvPrefixes = {"SOUL_", "APP_"}
    SetUnder = {"APP_"}
    EnvValue = "v"
    KeyIsPlain = TRUE
    Setters = {m1}
    Watcher = m2
    MaxLayers = 2
    MaxEdits = 1
    MaxTokens = 1
    MaxChanges = 2
    Source = "nacos"
    MaxVersions = 3
    MaxCalls = 2
    MaxLocal = 1
    MaxTimers = 2
SPECIFICATION StartupSpec
INVARIANTS LifecycleSound ConfigSound
PROPERTIES SortSound RunReturns
