SPECIFICATION Spec
CONSTANTS
    Strings <- MCStrings
    TrxContexts <- MCTrxContexts
    Paths <- MCPaths
    Null = Null
    None = None
    MaxLogs = 2
    MaxSecrets = 1
    MaxInFlight = 2
INVARIANTS
    TypeOK
    RoutedAsRequested
