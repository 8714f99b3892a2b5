\* Deadlines: create, destroy and set-timeout race with the reaper.
SPECIFICATION FairSpec
CONSTANTS
    Ids = {1, 2}
    Pids = {1, 2}
    SnapIds = {}
    GuestPorts = {}
    Deadlines = {1, 2, 3, 4}
    TapMax = 2
    IpMin = 10
    IpMax = 13
    IpSpace = 256
    PortMin = 1
    PortMax = 2
    Requests = {r1}
    Reaper = Reaper
    Main = Main
    Clones = {}
    PrimaryPort = 99
    ClientOps = {"create", "destroy", "timeout"}
    Timeouts = {1}
    Overlap = TRUE
    Faults = {"forward_partial", "exit"}
    MaxNow = 2
    MaxCrashes = 0
PROPERTY ExpiredReaped
CHECK_DEADLOCK FALSE
