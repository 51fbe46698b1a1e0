SPECIFICATION Spec
CONSTANTS
    Address = {a1}
    Email = {e1, e2, e3}
    NoAddress = NoAddress
    NoEmail = NoEmail
    Thread = {t1, t2}
    Token = {k1}
    NoToken = NoToken
    Mutex = {m1, m2}
    NoHolder = NoHolder
    NoMutex = NoMutex
    NoKey = NoKey
    Deployments <- Racing
SYMMETRY Symmetric
PROPERTIES
    QuotaKept
