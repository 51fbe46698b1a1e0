SPECIFICATION Spec
CONSTANTS
    Address = {a1, a2}
    Email = {e1, e2, e3, e4, e5}
    NoAddress = NoAddress
    NoEmail = NoEmail
    Thread = {t1, t2}
    Token = {k1}
    NoToken = NoToken
    Mutex = {m1, m2}
    NoHolder = NoHolder
    NoMutex = NoMutex
    NoKey = NoKey
    Deployments <- Everything
SYMMETRY Symmetric
INVARIANTS
    TypeOK
    ReplyTruth
    AnswersSeen
    OnlyTakeoverCrashes
PROPERTIES
    QuotaKept
    TakeoverNeedsConfirm
    LinkSpentOnlyWhenBound
    MailedLinkStored
