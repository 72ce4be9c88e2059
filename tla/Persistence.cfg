CONSTANTS
    Keys = {k1, k2, k3}
    NoValue = NoValue
    Values = {1, 2}
    MaxEntries = 2
    MaxBytes = 3
    Ttls = {0, 1}
    MaxNow = 2
    Callers = {t1, t2}
    CacheKeys = {k1}
    CacheValues = {1, 2}
    Absent = Absent
    Depth = 3
    Clients = {t1, t2}
    Ids = {i1, i2}
    Versions = {1, 2}
    Gone = Gone
    Extractors = {TRUE, FALSE}
    MaxWrites = 3
    Queries = {1, 2, 3}
    Tables = {"users"}
    TableOf <- SomeTables
    NoTable = "none"
    MaxListed = 3
    Deployments = {"new", "old"}
    Schemas = {1, 2}
    Registered <- SomeReleases
    MaxRedone = 1
    Sessions = {s1, s2}
    RowIds = {i1, i2}
    NoRow = NoRow
    MaxConditions = 3
    MaxNesting = 2
    MaxIn = 2
    FileKeys = {k1, k2}
    Sizes = {1, 2}
    SizeBound = 3
    MaxFaults = 2
    LruKeys = {1, 2, 3}
    MaxHeld = 2
    StorageKeys = {"k1", "k2"}
    Contents = {"a", "b"}
    MaxMishaps = 2
    EntityIds = {1, 2}
    PlainFields = {"age", "name"}
    FieldLists <- SomeLists
    ColumnOf <- SomeColumns
    FieldValues = {1, 2}
    MaxStamp = 4
    MaxRows = 3
SPECIFICATION Spec
INVARIANTS CachesSound LevelsSound StoresSound RowsSound
PROPERTIES MemoryCacheIsCache FreshInTheEnd TablesSound
CHECK_DEADLOCK FALSE
