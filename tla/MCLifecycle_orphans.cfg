\* A crash between two steps of create.
SPECIFICATION Spec
CONSTANTS
    Ids = {1}
    Pids = {1}
    SnapIds = {}
    GuestPorts = {}
    Deadlines = {1, 2, 3, 4}
    TapMax = 1
    IpMin = 10
    IpMax = 13
    IpSpace = 256
    PortMin = 1
    PortMax = 1
    Requests = {r1}
    Reaper = Reaper
    Main = Main
    Clones = {}
    PrimaryPort = 99
    ClientOps = {"create"}
    Timeouts = {0}
    Overlap = FALSE
    Faults = {}
    MaxNow = 0
    MaxCrashes = 1
PROPERTY OrphansKilled
CHECK_DEADLOCK FALSE
