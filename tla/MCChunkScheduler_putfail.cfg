SPECIFICATION MCFairSpec
CONSTANTS
    Chunks = {0}
    Peers = {p1}
    Blocks = {b1}
    Nobody = Nobody
    MaxInFlightPerPeer = 1
    MaxTotalInFlight = 2
    P2P_REQUEST_RETRIES = 1
    CanFail = {"put"}
    MaxP2PTasks = 1
    MaxPeerEvents = 1
PROPERTY AlwaysFinishes
CHECK_DEADLOCK FALSE
