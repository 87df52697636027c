SPECIFICATION MCSpec
CONSTANTS
    Chunks = {0, 1}
    Peers = {p1, p2}
    Blocks = {b1, b2}
    Nobody = Nobody
    MaxInFlightPerPeer = 1
    MaxTotalInFlight = 2
    P2P_REQUEST_RETRIES = 1
    CanFail = {"overrun", "digest", "put"}
    MaxP2PTasks = 1
    MaxPeerEvents = 2
SYMMETRY Symmetric
INVARIANTS WorkOutstanding AdvertisedOnlyVerified OriginClaimsBacked NoLeftovers
PROPERTIES HeldNeverRefetched FirstAttemptsWithinCaps
CHECK_DEADLOCK FALSE
