SPECIFICATION FairSpec
CONSTANTS
    Article = {a1}
    Slug = {k1, k2}
    Request = {r1, r2}
    None = None
    Feed = Feed
    MaxVersion = 3
    MaxCounted = 1
    Operations <- Writers
    retries = 6
    Backoff = 10
PROPERTIES StaleCopiesExpire GivesUpLast EventuallyServes
