SPECIFICATION Spec
CONSTANTS
    User = {u1, u2}
    Article = {a1, a2}
    Request = {r1, r2, r3}
    None = None
    MaxLost = 2
SYMMETRY Interchangeable
INVARIANTS TypeOK CountConserved ExactWhenIdle BoundedBelow
