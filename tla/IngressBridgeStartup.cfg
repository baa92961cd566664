SPECIFICATION FairSpec
CONSTANTS
    Conns = {c1}
    Payloads <- MCPayloads
    NetworkEgress = TRUE
    MaxUp = 1
    MaxDown = 1
CHECK_DEADLOCK FALSE
PROPERTIES
    BindFailureIsFatal
