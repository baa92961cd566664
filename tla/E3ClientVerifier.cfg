SPECIFICATION Spec
CONSTANTS
    Calls = {c1}
    ApiKeys <- MCApiKeys
    Datas <- MCDatas
    Answers <- MCAnswers
    Null = Null
    Contexts <- MCContexts
    Peers <- MCPeers
    Malformed = Malformed
INVARIANTS
    OnlyAnAttestedPeerIsServed
