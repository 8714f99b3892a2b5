\* Snapshots, restores and fan-outs by two clients, with failing snapshots
\* and starts, and clients that hang up.
SPECIFICATION SnapSpec
CONSTANTS
    Ids = {1, 2, 3}
    Pids = {1, 2, 3}
    Clones = {2, 3}
    SnapIds = {1}
    GuestPorts = {}
    Deadlines = {1}
    TapMax = 2
    IpMin = 10
    IpMax = 13
    IpSpace = 256
    PortMin = 1
    PortMax = 2
    Requests = {r1, r2}
    Reaper = Reaper
    Main = Main
    PrimaryPort = 99
    ClientOps = {"create", "destroy", "snapshot", "restore", "fanout", "delete_snapshot"}
    Timeouts = {0}
    Overlap = FALSE
    Faults = {"snapshot", "start"}
    MaxNow = 0
    MaxCrashes = 0
    Counts = {1, 2}
    MaxWrites = 1
SYMMETRY Symmetry
INVARIANTS
    SnapTypeOK
    DiskExclusive
    SnapshotsWhole
    GuestKeepsDisk
    
    NothingLeftOver
    ServingWhole
    
CHECK_DEADLOCK FALSE
