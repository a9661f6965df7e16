CONSTANTS
    Caller = {u1, u2}
    Worker = {u1, u2}
    Plan = {"FREE", "SCALE"}
    Quota <- SmallQuota
    Unlimited = {"SCALE"}
    LastPeriod = 2
    MaxUsage = 3
    Adder = {u1, u2}
    Name = {n1, n2}
    Limit <- SmallLimit
    Call = {u1, u2}
    First = "FREE"
    Statuses = {"active", "halted", "expired"}
    MaxSubs = 2
    MaxRows = 1
    Phone = {"p"}
    Tag = {"t1", "t2"}
    NoPhone = "none"
    Writer = {u1, u2}
    Sheet <- Sheets
    MaxRuns = 4
    Table <- Tables
    User = {u1, u2}
    Initial = 1
    MaxPipes = 2
    MaxStages = 3
    MaxDeals = 1
    Length = {4, 9}
    Breaks <- SomeBreaks
    Size = 6
    Overlap = 1
    MaxDocs = 3
    Vertical = {"CLINIC", "COACHING", "D2C"}
    Owner = {u1, u2}
    MaxGrants = 2
    MaxStates = 2
    Author = {u1, u2}
    Title = {"order"}
    Text = {"", "hi", "h", "f", "b", "u"}
    NoText = ""
    Form <- Forms
    MaxIds = 1
    Chat = {"c1", "c2"}
    Nobody = "nobody"
    Scopes <- PageScopes
    Tab = {u1, u2}
    MaxNodes = 1
    MaxEdits = 1
    MaxSaves = 2
    WabaOf <- Numbers
    Absent = "undefined"
    MaxWindows = 2
    MaxFinishes = 2
    Message = {u1, u2}
    MaxCopies = 2
    MaxRepeats = 1
    Visit = {u1, u2}
    RouteMax = 1
    AnonLimit = 1
    AuthedLimit = 2
    LastMinute = 1
    MaxVisits = 4

SPECIFICATION WorkspaceSpec
SYMMETRY Symmetry
INVARIANT UsageAccounted
PROPERTY AdmissionWithinPlan
INVARIANT CapacityHolds
PROPERTY SuspensionEarned
INVARIANT TagsKept
INVARIANT CsvRoundTrip
INVARIANT DealsOnBoard
INVARIANT IngestComplete
INVARIANT BundleBacked
INVARIANT CredentialsAreConnected
INVARIANT ApprovedAsSent
INVARIANT NothingLostQuietly
INVARIANT SavedNodesKept
INVARIANT TokenFitsNumber
INVARIANT ReceiptsApplied
INVARIANT LimitsLapse
CHECK_DEADLOCK FALSE
