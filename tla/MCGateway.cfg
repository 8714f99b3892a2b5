\* Two hosts of unequal size, two creates at once, heartbeats overtaking each
\* other, one outage.
SPECIFICATION Spec
CONSTANTS
    h1 = h1
    h2 = h2
    Hosts = {h1, h2}
    Sids = {s1, s2}
    Clients = {c1, c2}
    NoHost = NoHost
    NoSid = NoSid
    SlotsOf <- MCSlots
    MaxNet = 2
    MaxOutages = 1
INVARIANTS
    GwTypeOK
    NeverMisrouted
    
PROPERTY RoutesUndisturbed
