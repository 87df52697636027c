SPECIFICATION MCFairSpec
CONSTANTS
    Chunks = {0, 1}
    Peers = {p1, p2}
    Blocks = {b1}
    Nobody = Nobody
    MaxInFlightPerPeer = 1
    MaxTotalInFlight = 1
    P2P_REQUEST_RETRIES = 2
    CanFail = {"overrun"}
    MaxP2PTasks = 2
    MaxPeerEvents = 2
PROPERTIES EventuallyComplete DeliversChunks LostRequestMovesOn
CHECK_DEADLOCK FALSE
