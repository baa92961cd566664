SPECIFICATION FairSpec
CONSTANTS
    Conns = {c1}
    Hostnames <- MCHostnames
    IPs <- MCIPs
    Hellos <- AllHellos
    InvalidUtf8 = InvalidUtf8
    MaxUp = 2
    MaxDown = 1
INVARIANTS
    TypeOK
    FrameFirst
    EgressAuthorized
    TunnelInOrder
    NoTruncation
PROPERTIES
    HandlerReturns
    BrokerIsATunnel
    BrokerCompletes
