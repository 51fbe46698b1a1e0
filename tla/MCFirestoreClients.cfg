SPECIFICATION Spec
CONSTANTS
    Address = {a1, a2}
    Email = {e1}
    NoAddress = NoAddress
    NoEmail = NoEmail
    Thread = {t1, t2}
    Token = {k1}
    NoToken = NoToken
    Level = {1}
SYMMETRY Symmetric
INVARIANTS
    TypeOK
    Provenance
    AloneBindHeals
    AloneUnbindClears
PROPERTIES
    OnlyUnbindDangles
    OnlyActivationCreates
