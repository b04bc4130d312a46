CONSTANTS
    a = a  b = b  u1 = u1  u2 = u2  x1 = x1
    None = None  Torn = Torn
    Name = {a}
    Upload = {u1}
    Stop = {}
    AppName <- OnlyOne
    AppPort <- OnePort
    StopName <- NoStop
    Port = {3000, 4000}
    OtherPorts = {}
    DockerMayFail = FALSE
    StateMayFail = FALSE
    LongLines = FALSE
    MaxRestarts = 1
SPECIFICATION WatchSpec
PROPERTY PromotedAppsSurvive
CHECK_DEADLOCK FALSE
