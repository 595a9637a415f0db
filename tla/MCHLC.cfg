CONSTANTS
    Instances = {h1, h2, h3}
    Procs = {p1, p2}
    Proc <- SeveralServers
    PhysSize = 2
    NodeSize = 2
    LogicalSize = 2
    MaxMs = 3
    MaxIssued = 3
SPECIFICATION Spec
INVARIANTS TypeOK MonotonicInPeriod UniqueInServer
