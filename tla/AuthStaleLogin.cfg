SPECIFICATION Spec
CONSTANTS
    User = {u1}
    SessionId = {s1, s2}
    TokenId = {t1, t2}
    Link = {k1}
    Request = {r1, r2}
    None = None
    MaxPassword = 2
    Operations <- Changing
INVARIANTS ChangeEndsOlderSessions
