CONSTANTS
    a = a  b = b  d1 = d1  None = None
    Name = {a, b}
    Configured <- OneTunnel
    Dir = {d1}
    StartDir <- OneDir
    MaxSession = 2
    MaxOps = 2
SPECIFICATION MCSpec
INVARIANTS TypeOK ConnectNeverStarves RestoredUnlessOverlap DirsAgree NoStrayTunnel
PROPERTIES RouteLostByOwnerOnly Reconnects
CHECK_DEADLOCK FALSE
