SPECIFICATION Spec
CONSTANTS
    User = {u1}
    SessionId = {s1}
    TokenId = {t1}
    Link = {k1}
    Request = {r1, r2}
    None = None
    MaxPassword = 2
    Operations <- Forgetting
INVARIANTS LinkSetsPasswordOnce
CHECK_DEADLOCK FALSE
