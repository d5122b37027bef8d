SPECIFICATION NetworkSpec
CONSTANTS
    TQSIZE = 4
    PAGE_SIZE = 5
    MaxUnits = 2
    TQ_FLUSH_COUNT = 2
    RQSIZE = 6
    RQ_FLUSH_COUNT = 3
    NoPacket = NoPacket
    Ids = 13
    QueueSizes = {2, 4}
    MAX_ACTUAL_QUEUE_SIZE = 2
    IdxMod = 8
    PacketIds = 3
    Addresses = {1, 2, 3}
    Gateway = 2
    Remote = 9
    MaxLoad = 5
    ARP_TABLE_SIZE = 4
    TOSEND_TABLE_SIZE = 2
    Word = 3
    Freqs = {1, 5}
    MaxMoves = 1
INVARIANTS
    RingSafe
    ReceiveSafe
    QueueSafe
    
PROPERTIES
    PacketsGetThrough
    OffersNoticed
    WaitingLeaves
