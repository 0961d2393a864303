CONSTANTS
    d1 = d1  d2 = d2
    c1 = c1  c2 = c2  c3 = c3
    w1 = w1  w2 = w2
    CallDatas = {d1, d2}
    NoCallData = NoCallData
    Workers = {w1, w2}
    Clients = {c1, c2, c3}
    NoClient = NoClient
    Methods <- MCMethods
    AuthMethods <- MCAuthMethods
    MethodOf <- MCMethodOf
SPECIFICATION Spec
SYMMETRY Symmetry
INVARIANTS TypeOK OneOwner ServedOnce OwnAnswer
