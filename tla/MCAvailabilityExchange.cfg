SPECIFICATION ExchangeFairSpec
CONSTANTS
    P2P_BUFFER_LOW_THRESHOLD = 1
    P2P_BUFFER_HIGH_WATERMARK = 2
    Sizes = {1, 2}
    MaxMessages = 4
    Resources <- TwoResources
    TotalOf <- Totals
    Visited <- EarlierVisits
    Traded <- TradedChunks
    NoResource = NoResource
    SomeIds <- Ids
    SomeNumbers <- Numbers
    SomeDatas <- Datas
    SomeTotals <- UpToTwoBytes
INVARIANTS
    KnowsWhatIsOffered
    NoFalseClaims
    WireFaithful
PROPERTIES
    DeliversInOrder
    QueuedArrives
CHECK_DEADLOCK FALSE
