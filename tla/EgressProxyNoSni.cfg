SPECIFICATION Spec
CONSTANTS
    Conns = {c1}
    Hostnames <- TwoTaskHostnames
    IPs <- OneIP
    Hellos <- AllHellos
    InvalidUtf8 = InvalidUtf8
    MaxUp = 0
    MaxDown = 0
INVARIANTS
    NoSniIsNoHostnameFound
