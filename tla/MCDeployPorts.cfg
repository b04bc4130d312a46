CONSTANTS
    a = a  b = b  u1 = u1  u2 = u2  x1 = x1
    None = None  Torn = Torn
    Name = {a, b}
    Upload = {u1, u2}
    Stop = {}
    AppName <- TwoNames
    AppPort <- OwnPorts
    StopName <- NoStop
    Port = {3000, 4000}
    OtherPorts = {}
    DockerMayFail = FALSE
    StateMayFail = FALSE
    LongLines = FALSE
    MaxRestarts = 0
SPECIFICATION WatchSpec
INVARIANT ListenAddrIsTheApps
CHECK_DEADLOCK FALSE
