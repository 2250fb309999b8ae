CONSTANTS
    MaxAmount = 5
    BlockSubsidy = 1
    Blocks <- MCBlocks
    DefaultHash = "zero"
    NoHash = "none"
    MaxWork = 10
    MaxFailures = 1
    MaxAnnouncements = 2
SPECIFICATION Spec
INVARIANTS
    LateAnswersBounded
    SegmentIsConnected
PROPERTIES
    WalksEnd
    AdvertisedTipIsFetched
CHECK_DEADLOCK FALSE
