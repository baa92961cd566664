SPECIFICATION Spec
CONSTANTS
    Reqs = {r1}
    ApiKeys <- MCApiKeys
    Datas <- MCDatas
    Answers <- MCAnswers
    Null = Null
    Contexts <- MCContexts
    Peers <- MCPeers
    Malformed = Malformed
    AttestationRequests <- MCAttestationRequests
    NoKey = NoKey
    NoContext = NoContext
    Builds <- BothBuilds
INVARIANTS
    NoContextNoService
CHECK_DEADLOCK FALSE
