CONSTANTS
    a = a  b = b  u1 = u1  u2 = u2  x1 = x1
    None = None  Torn = Torn
    Name = {a}
    Upload = {u1, u2}
    Stop = {x1}
    AppName <- OneName
    AppPort <- OwnPorts
    StopName <- StopsA
    Port = {3000, 4000}
    OtherPorts = {}
    DockerMayFail = FALSE
    StateMayFail = TRUE
    LongLines = TRUE
    MaxRestarts = 1
SPECIFICATION WatchSpec
INVARIANTS TypeOK NoGhostBuild AppBacked NothingLeaks
PROPERTY SurvivesCrash
CHECK_DEADLOCK FALSE
