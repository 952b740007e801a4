SPECIFICATION FairSpec
CONSTANTS
    User = {u1}
    SessionId = {s1}
    TokenId = {t1, t2, t3}
    Link = {k1}
    Request = {r1, r2}
    None = None
    MaxPassword = 0
    Operations <- Calm
INVARIANTS NeverStranded
PROPERTIES ReuseEndsSession
CHECK_DEADLOCK FALSE
