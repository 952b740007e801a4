SPECIFICATION Spec
CONSTANTS
    Request = {r1, r2}
    None = None
    Operations <- Everything
    Token = {d1, d2, d3}
    Slug = {k1, k2}
    List = List
    FeedSlug = {k1}
    MaxCategories = 2
    MaxCategoryWrites = 3
    Patches <- SlugOrParent
    MaxArticles = 3
    MaxArticleWrites = 3
    Limits = {1, 2}
    Dates = {9}
    User = {"reader", "other"}
    Notice = {1, 2, 3, 4}
    owner <- Owners
    Limit = 2
    Nobody = Nobody
    All = 0
SYMMETRY Interchangeable
INVARIANTS TypeOK OnlyDistinctRequested SerialIsExact LoopsNeedMoves
    OnlyActiveIsCached ListFreshBetweenRequests
    InOrderOfPublication QuietWalkIsExact GrowthHidesNothing
    MarksAreToldOnce AnsweredIsRead ListingIsOfItsTime
