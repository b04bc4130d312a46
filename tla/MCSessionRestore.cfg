CONSTANTS
    a = a  b = b  d1 = d1  None = None
    Name = {a, b}
    Configured <- TwoTunnels
    Dir = {d1}
    StartDir <- OneDir
    MaxSession = 2
    MaxOps = 0
SPECIFICATION MCSpec
INVARIANT TunnelsRestored
CHECK_DEADLOCK FALSE
