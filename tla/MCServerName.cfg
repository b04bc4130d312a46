CONSTANTS
    s1 = s1  s2 = s2  a = a  b = b  u1 = u1  v1 = v1
    None = None  Torn = Torn
    Session = {s1}
    Name = {a, b}
    Port = {}
    TCPPortMin = 0
    TCPPortMax = 0
    AllowedPorts = {}
    Requests <- OtherName
    MaxMessages = 1
    Visitor = {}
    Upload = {u1}
    Stop = {}
    AppName <- PromoteA
    AppPort <- OnPort
    StopName <- NoStop
    HostPort = {3000}
    OtherPorts = {}
SPECIFICATION WatchSpec
PROPERTY EvictedRoute
CHECK_DEADLOCK FALSE
