CONSTANTS
    Addresses <- MCAddresses
    Nodes <- MCNodes
    Seeds <- MCSeeds
    Histories <- MCHistories
    MaxHeight = 2
SPECIFICATION Spec
INVARIANTS
    AdvertisedIsReached
PROPERTIES
    HandlersEnd
    ToldNodesCatchUp
CHECK_DEADLOCK FALSE
