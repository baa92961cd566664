SPECIFICATION Spec
CONSTANTS
    Conns = {c1}
    Hostnames <- TwoTaskHostnames
    IPs <- MCIPs
    Hellos <- FewHellos
    InvalidUtf8 = InvalidUtf8
    MaxUp = 0
    MaxDown = 0
INVARIANTS
    ChosenIpIsCached
