SPECIFICATION Spec
CONSTANTS
    Address = {a1}
    Email = {e1}
    NoAddress = NoAddress
    NoEmail = NoEmail
    Thread = {t1}
    Token = {k1}
    NoToken = NoToken
    Mutex = {m1, m2}
    NoHolder = NoHolder
    NoMutex = NoMutex
    NoKey = NoKey
    Deployments <- Levels
SYMMETRY Symmetric
PROPERTIES
    InactiveRefused
