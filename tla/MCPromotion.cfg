CONSTANTS
    a = a  u1 = u1  u2 = u2
    None = None  Torn = Torn
    Name = {a}
    Upload = {u1, u2}
    AppName <- OneName
    AppPort <- OnePort
    Port = {3000}
    OtherPorts = {}
    DockerMayFail = TRUE
    StateMayFail = TRUE
    LongLines = TRUE
SPECIFICATION FairSpec
INVARIANT AlarmsExplained
PROPERTY BuildsEnd
CHECK_DEADLOCK FALSE
