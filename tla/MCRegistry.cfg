\* Two taps and three addresses for three ids: the tap pool runs out first,
\* and extra ports compete with primary ones for three host ports.
SPECIFICATION RegSpec
CONSTANTS
    Ids = {1, 2, 3}
    SnapIds = {1}
    GuestPorts = {80}
    Pids = {7}
    Deadlines = {}
    TapMax = 2
    IpMin = 10
    IpMax = 12
    IpSpace = 256
    PortMin = 5200
    PortMax = 5202
INVARIANTS
    RegTypeOK
    Exclusive
    PortsOwned
    Paired
    CapacityHonest
PROPERTY ImplementsAllocator
CHECK_DEADLOCK FALSE
