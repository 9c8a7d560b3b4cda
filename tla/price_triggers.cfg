SPECIFICATION FairSpec
CONSTANTS
    f1 = f1
    r1 = r1
    low = low
    high = high
    None = None
    Feeds = {f1}
    Rules = {r1}
    FeedOf <- OneFeedOf
    Prices = {low, high}
    CrossedBy <- HighCrosses
    Endpoints = {1}
    Catalog = {f1}
    Muted = {}
    MaxAge <- MCMaxAge
    Modes = {"off", "on"}
    ChannelCap = 1
    UpdatesCap = 1
    MaxPublish = 1
    MaxChanges = 2
INVARIANTS TypeOK StreamedPricesAreFresh ActiveFollowsConnections
PROPERTY CrossingIsSeen
CHECK_DEADLOCK FALSE
