CONSTANTS
    s1 = s1  s2 = s2  a = a  b = b  v1 = v1
    None = None
    Session <- MCSession
    Name <- MCName
    Port <- OnePort
    TCPPortMin = 1
    TCPPortMax = 1
    AllowedPorts = {}
    Requests <- Subdomains12
    MaxMessages = 2
    Visitor = {v1}
SPECIFICATION Spec
INVARIANTS NoDanglingRoute OwnSubdomainKept
PROPERTY MissingOnlyIfRerouted
CHECK_DEADLOCK FALSE
