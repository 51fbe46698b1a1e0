SPECIFICATION Spec
CONSTANTS
    Address = {a1, a2}
    Email = {e1}
    NoAddress = NoAddress
    NoEmail = NoEmail
    Thread = {t1, t2}
    Token = {k1}
    NoToken = NoToken
    Mutex = {m1, m2, m3, m4}
    NoHolder = NoHolder
    NoMutex = NoMutex
    NoKey = NoKey
    Level = {1}
SYMMETRY Symmetric
INVARIANTS
    TypeOK
    NoLostUpdate
    AloneBindHeals
    AloneUnbindClears
