SPECIFICATION Spec
CONSTANTS
    Screens = {"session", "shell", "connection", "bar", "cluster", "secrets", "users", "tables", "details",
               "schema", "insert", "assistant"}
    MaxEvents <- MCEvents
    MaxCalls = 4
    Names = {"ann", "bea"}
    Urls = {"/api/v1", "u2"}
    DefaultUrl = "/api/v1"
    MaxOpenChecks = 2
    Snapshots <- MCSnapshots
    Keys = {"openai", "bad"}
    BadKeys = {"bad"}
    Common = {"openai"}
    Accounts = {"root", "bob"}
    Admin = "root"
    Perms = {"p"}
    TableNames = {"t1", "t2"}
    Filters = {"t1"}
    IndexNames = {"i1"}
    Samples <- MCSamples
    Files <- MCFiles
    MaxSchemas = 2
INVARIANTS
    FrameOfUser
    ShownOfServer
PROPERTIES
    ModesAgree
    Recovers
CHECK_DEADLOCK FALSE
