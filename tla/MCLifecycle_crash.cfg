\* Crashes, reboots and graceful stops at every step, also inside reconcile.
SPECIFICATION Spec
CONSTANTS
    Ids = {1, 2}
    Pids = {1, 2}
    SnapIds = {}
    GuestPorts = {80}
    Deadlines = {1, 2, 3, 4}
    TapMax = 2
    IpMin = 10
    IpMax = 13
    IpSpace = 256
    PortMin = 1
    PortMax = 3
    Requests = {r1, r2}
    Reaper = Reaper
    Main = Main
    Clones = {}
    PrimaryPort = 99
    ClientOps = {"create", "destroy", "expose"}
    Timeouts = {0}
    Overlap = FALSE
    Faults = {"rootfs_partial", "tap", "start", "forward", "agent"}
    MaxNow = 0
    MaxCrashes = 2
SYMMETRY Symmetry
INVARIANTS
    
    StopKillsVMs
 
CHECK_DEADLOCK FALSE
