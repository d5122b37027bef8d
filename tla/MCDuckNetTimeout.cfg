SPECIFICATION DuckNetSpec
CONSTANTS
    Addresses = {1, 2, 3}
    Gateway = 2
    Remote = 9
    MaxLoad = 5
    ARP_TABLE_SIZE = 4
    TOSEND_TABLE_SIZE = 2
    Word = 3
    Freqs = {1, 5}
    MaxMoves = 1
PROPERTY
    WaitingExpires
