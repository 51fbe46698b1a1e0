SPECIFICATION Spec
CONSTANTS
    Address = {a1, a2}
    Email = {e1, e2}
    NoAddress = NoAddress
    NoEmail = NoEmail
    Thread = {t1}
    Token = {k1}
    NoToken = NoToken
    Level = {1}
SYMMETRY Symmetric
PROPERTIES
    ImplementsBook
    BookStaysConsistent
