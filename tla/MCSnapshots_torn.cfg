\* Two snapshots of one sandbox at the same time.
SPECIFICATION SnapSpec
CONSTANTS
    Ids = {1}
    Pids = {1}
    Clones = {}
    SnapIds = {1, 2}
    GuestPorts = {}
    Deadlines = {1}
    TapMax = 2
    IpMin = 10
    IpMax = 13
    IpSpace = 256
    PortMin = 1
    PortMax = 2
    Requests = {r1, r2}
    Reaper = Reaper
    Main = Main
    PrimaryPort = 99
    ClientOps = {"create", "snapshot"}
    Timeouts = {0}
    Overlap = TRUE
    Faults = {}
    MaxNow = 0
    MaxCrashes = 0
    Counts = {1}
    MaxWrites = 1
INVARIANT SnapshotsWhole
CHECK_DEADLOCK FALSE
