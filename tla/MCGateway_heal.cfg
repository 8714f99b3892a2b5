\* The same fleet with fewer sandboxes, for the temporal check; a heartbeat may
\* be overtaken, lost or undone by pruning and restarts.
SPECIFICATION FairSpec
CONSTANTS
    h1 = h1
    h2 = h2
    Hosts = {h1, h2}
    Sids = {s1}
    Clients = {c1}
    NoHost = NoHost
    NoSid = NoSid
    SlotsOf <- MCSlots
    MaxNet = 2
    MaxOutages = 1
PROPERTY RoutesHeal
