SPECIFICATION TcpOutSpec
CONSTANTS
    Total = 6
    Writes = {2, 3}
    mss = 2
    SND_BUF = 4
    MaxRtx = 2
    MaxCwnd = 8
    PeerWnd = 4
    MaxAcks = 2
INVARIANT AssertionsHold
\* A connection that was given up stops.
CHECK_DEADLOCK FALSE
