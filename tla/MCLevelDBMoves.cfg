SPECIFICATION InstanceSpec
CONSTANTS
    Address = {a1, a2}
    Email = {e1}
    NoAddress = NoAddress
    NoEmail = NoEmail
    Thread = {t1, t2}
    Token = {k1}
    NoToken = NoToken
    Mutex = {m1, m2, m3, m4, m5, m6}
    NoHolder = NoHolder
    NoMutex = {m1, m2, m3, m4, m5, m6}
    NoKey = NoKey
INVARIANTS
    OnlyCrossMovesBlock
PROPERTIES
    CallsReturn
CHECK_DEADLOCK FALSE
