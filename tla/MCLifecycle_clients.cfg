\* Two concurrent clients, failing commands, dying VMs and hang-ups.
SPECIFICATION Spec
CONSTANTS
    Ids = {1, 2, 3}
    Pids = {1, 2, 3}
    SnapIds = {}
    GuestPorts = {80}
    Deadlines = {1, 2, 3, 4}
    TapMax = 2
    IpMin = 10
    IpMax = 13
    IpSpace = 256
    PortMin = 1
    PortMax = 4
    Requests = {r1, r2}
    Reaper = Reaper
    Main = Main
    Clones = {}
    PrimaryPort = 99
    ClientOps = {"create", "destroy", "expose"}
    Timeouts = {0}
    Overlap = FALSE
    Faults = {"rootfs", "tap", "start", "forward", "agent", "exit"}
    MaxNow = 0
    MaxCrashes = 0
SYMMETRY Symmetry
INVARIANTS
    LifeTypeOK
    ServingWhole
    
    NothingLeaked
    
CHECK_DEADLOCK FALSE
