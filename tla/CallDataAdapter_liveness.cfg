CONSTANTS
    d1 = d1  d2 = d2
    c1 = c1  c2 = c2  c3 = c3
    w1 = w1  w2 = w2
    CallDatas = {d1}
    NoCallData = NoCallData
    Workers = {w1, w2}
    Clients = {c1, c2, c3}
    NoClient = NoClient
    Methods <- MCOneMethod
    AuthMethods <- MCAuthMethods
    MethodOf <- MCSingle
SPECIFICATION FairSpec
PROPERTIES CallsAnswered PoolRefills ImplementsRpc
