SPECIFICATION Spec
CONSTANTS
    Article = {a1, a2}
    Slug = {k1, k2}
    Request = {r1, r2}
    None = None
    Feed = Feed
    MaxVersion = 2
    MaxCounted = 1
    Operations <- Everything
SYMMETRY Interchangeable
INVARIANTS TypeOK OnlyShownIsCached FreshBetweenRequests
PROPERTY ConflictsAreFoundFirst
