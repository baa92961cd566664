SPECIFICATION Spec
CONSTANTS
    PortValues <- MCPortValues
    NameValues <- MCNameValues
    Unset = Unset
    NotUnicode = NotUnicode
    Builds <- BothBuilds
CHECK_DEADLOCK FALSE
INVARIANTS
    TypeOK
    PortsAreTheListedNumbers
    AllowListIsTheListedNames
