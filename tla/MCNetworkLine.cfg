CONSTANTS
    Addresses <- MCAddresses
    Nodes <- MCLineNodes
    Seeds <- MCLineSeeds
    Histories <- MCLineHistories
    MaxHeight = 1
SPECIFICATION Spec
PROPERTIES
    LaggingNodesConverge
CHECK_DEADLOCK FALSE
