\* A fan-out of up to two clones, with failing commands, guests that fail to
\* thaw, and hang-ups.
SPECIFICATION SnapFairSpec
CONSTANTS
    Ids = {1, 2, 3}
    Pids = {1, 2, 3}
    Clones = {2, 3}
    SnapIds = {1}
    GuestPorts = {}
    Deadlines = {1}
    TapMax = 3
    IpMin = 10
    IpMax = 13
    IpSpace = 256
    PortMin = 1
    PortMax = 3
    Requests = {r1}
    Reaper = Reaper
    Main = Main
    PrimaryPort = 99
    ClientOps = {"create", "destroy", "snapshot", "fanout"}
    Timeouts = {0}
    Overlap = FALSE
    Faults = {"start", "tap", "thaw", "forward"}
    MaxNow = 0
    MaxCrashes = 0
    Counts = {1, 2}
    MaxWrites = 1
INVARIANT BridgedAddressOwned
PROPERTY RequestsAnswered
CHECK_DEADLOCK FALSE
