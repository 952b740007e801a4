SPECIFICATION Spec
CONSTANTS
    User = {u1, u2}
    SessionId = {s1, s2}
    TokenId = {t1, t2, t3}
    Link = {k1}
    Request = {r1, r2}
    None = None
    MaxPassword = 1
    Operations <- SessionOperations
SYMMETRY Interchangeable
INVARIANTS ClosedStaysClosed ExchangedIsRevoked ForkNeedsDoubleExchange
PROPERTIES OnlyOwnersEnd ImplementsLifecycle
