CONSTANTS
    s1 = s1  s2 = s2  a = a  b = b  v1 = v1
    None = None
    Session <- MCSession
    Name <- OneName
    Port <- TwoPorts
    TCPPortMin = 1
    TCPPortMax = 2
    AllowedPorts = {}
    Requests <- Ports12
    MaxMessages = 2
    Visitor = {}
SPECIFICATION FairSpec
INVARIANTS TypeOK EntryWhileHandled ListenersLive PortTableExact
PROPERTIES LeaseSpec Purged
CHECK_DEADLOCK FALSE
