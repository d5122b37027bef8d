SPECIFICATION LwipSpec
CONSTANTS
    SeqSpace = 32
    Isns = {0, 29}
    StreamLen = 7
    MSS = 3
    TCP_WND = 6
    Total = 6
    Writes = {3}
    mss = 2
    SND_BUF = 4
    MaxRtx = 2
    MaxCwnd = 8
    PeerWnd = 4
    MaxAcks = 2
    TimeMod = 18
    Interval <- Intervals
    MaxLag = 2
    MEM_SIZE = 24
    SIZEOF_STRUCT_MEM = 2
    MIN_SIZE = 2
    Sizes = {1, 3, 6}
    Neighbours = {1, 2, 3}
    Macs = {1, 2}
    ARP_TABLE_SIZE = 2
    ARP_MAXAGE = 3
    ARP_MAXPENDING = 2
    AGE_UNICAST = 2
    MaxProbes = 1
    Addresses = {1, 2}
    Leases = {20, 90, 300, 480}
    Datagrams = {1, 2, 3}
    Fragments <- SentFragments
    MEMP_NUM_REASSDATA = 2
    IP_REASS_MAX_PBUFS = 5
    IP_REASS_MAXAGE = 2
INVARIANTS
    StreamSound
    SenderSound
    
    ArpSound
    
    ReassSound
PROPERTIES
    EdgeNeverShrinks
    StreamDelivered
    AnswersArrive
    TimersServed
    NothingWaitsForEver
    AddressReturns
\* A connection that was given up stops.
CHECK_DEADLOCK FALSE
