CONSTANTS
    r1 = r1  r2 = r2  i1 = i1  i2 = i2  x1 = x1  x2 = x2
    Requests = {r1, r2}
    Ids = {i1, i2}
    Passwords = {x1, x2}
    None = None
    Corrupt = Corrupt
SPECIFICATION Spec
SYMMETRY Symmetry
INVARIANTS TypeOK CacheIsRow LoginProved ExistingUserFound RedisNeverFatal
