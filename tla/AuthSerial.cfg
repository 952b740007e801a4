SPECIFICATION Spec
CONSTANTS
    User = {u1}
    SessionId = {s1, s2}
    TokenId = {t1, t2, t3}
    Link = {k1}
    Request = {r1}
    None = None
    MaxPassword = 1
    Operations <- AllOperations
SYMMETRY Interchangeable
INVARIANTS TypeOK LinkSetsPasswordFirst ReuseInvalidatesSession ChangeEndsOlderSessions
PROPERTIES ImplementsRotation
