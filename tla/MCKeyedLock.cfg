SPECIFICATION Spec
CONSTANTS
    Holder = {h1, h2, h3}
    Key = {k1, k2}
    Mutex = {m1, m2, m3, m4, m5}
    NoHolder = NoHolder
    NoMutex = NoMutex
    NoKey = NoKey
INVARIANTS
    OneKeyPerMutex
    OwnerIsHolder
    EntryHasUser
    ExclusionUntilOrphaned
PROPERTIES
    OnlyReleaseOrphans
