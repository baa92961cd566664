SPECIFICATION Spec
CONSTANTS
    Calls = {c1, c2}
    ApiKeys <- MCApiKeys
    Datas <- MCDatas
    Answers <- MCAnswers
    Null = Null
    Contexts <- MCContexts
    Peers <- MCPeers
    Malformed = Malformed
INVARIANTS
    TypeOK
    OkOnlyOnSuccess
