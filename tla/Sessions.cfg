SPECIFICATION Spec
CONSTANTS
    Users = {ann}
    Passwords = {old}
    Clients = {c1}
    Tokens = {t1, t2}
    ResetTokens = {k1}
    Requests = {r1, r2}
    SessionTTL = 2
    ResetTTL = 0
    MaxAttempts = 1
    Window = 0
    None = None
SYMMETRY Symmetry
INVARIANTS
    TypeOK
    NoServiceAfterEnd
    ResetRevokes
    FailuresBounded
PROPERTIES
    EndedStaysEnded
