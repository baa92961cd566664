SPECIFICATION FairSpec
CONSTANTS
    Conns = {c1}
    Payloads <- MCPayloads
    NetworkEgress = TRUE
    MaxUp = 2
    MaxDown = 1
CHECK_DEADLOCK FALSE
INVARIANTS
    TypeOK
    BridgeOblivious
    NoTruncation
PROPERTIES
    BridgeReturns
    BridgeIsATunnel
    BridgeCompletes
