CONSTANTS
    s1 = s1  s2 = s2  a = a  b = b  v1 = v1
    None = None
    Session <- MCSession
    Name <- MCName
    Port <- OnePort
    TCPPortMin = 1
    TCPPortMax = 1
    AllowedPorts = {}
    Requests <- ContendedHttp
    MaxMessages = 2
    Visitor = {}
SPECIFICATION Spec
INVARIANT HttpTableExact
CHECK_DEADLOCK FALSE
