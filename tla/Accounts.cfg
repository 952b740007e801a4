SPECIFICATION Spec
CONSTANTS
    User = {u1, u2}
    Email = {e1, e2}
    Link = {k1}
    Request = {r1, r2}
    Google = {}
    Apple = {s1, s2}
    e1 = e1
    e2 = e2
    s1 = s1
    s2 = s2
    None = None
    Renamed = Renamed
    Claims <- Tokens
    Operations <- Everything
SYMMETRY Interchangeable
INVARIANTS TypeOK VerifiedForAReason AccountsHaveOneAddress NobodyLockedOut SpentLinkVerifies
