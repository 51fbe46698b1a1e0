SPECIFICATION Spec
CONSTANTS
    Holder = {h1, h2}
    Key = {k1}
    Mutex = {m1, m2, m3}
    NoHolder = NoHolder
    NoMutex = NoMutex
    NoKey = NoKey
INVARIANTS
    MutualExclusion
