CONSTANTS
    s1 = s1  s2 = s2  a = a  b = b  u1 = u1  v1 = v1
    None = None  Torn = Torn
    Session = {s1, s2}
    Name = {a}
    Port = {}
    TCPPortMin = 0
    TCPPortMax = 0
    AllowedPorts = {}
    Requests <- SameName
    MaxMessages = 1
    Visitor = {v1}
    Upload = {u1}
    Stop = {}
    AppName <- PromoteA
    AppPort <- OnPort
    StopName <- NoStop
    HostPort = {3000}
    OtherPorts = {}
SPECIFICATION WatchSpec
INVARIANTS NoGap AppNotShadowed
PROPERTY PromotionKeepsServing
CHECK_DEADLOCK FALSE
