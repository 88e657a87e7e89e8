SPECIFICATION RdvFairSpec
CONSTANTS
    Configs <- SomeConfigs
    BridgeFile = {"default"}
    Addresses = 1
    MaxDup = 1
    MaxCalls = 2
    MaxPrints = 1
INVARIANTS CountsSound RestrictedClientReached
PROPERTIES ProbeEnds
CHECK_DEADLOCK FALSE
