------------------------------- MODULE NewsCache -------------------------------
(***************************************************************************)
(* News articles in Postgres and their cache-aside copies in Redis         *)
(* (news.service.ts, news.repository.ts, redis.service.ts).  A reader that *)
(* misses reads the row and stores it in a later command; a writer updates *)
(* the row and deletes keys in later commands, computed from the slug it   *)
(* read before it wrote.  The feed has one key for each combination of     *)
(* filters and all are filled and deleted alike: one key stands for them.  *)
(* The contents of a row are two numbers: NewsService increases one with   *)
(* every write, BookmarkService the other when it counts a bookmark.       *)
(* None is also SQL null and an unset local.                               *)
(***************************************************************************)
EXTENDS Naturals, Sequences, FiniteSets, RedisCache

CONSTANTS Article, Slug, Request,
          Feed,        \* the cache key of the feed
          MaxVersion,  \* bound on the writes of NewsService to one article
          MaxCounted,  \* bound on bookmarks counted, all of one article
          Operations   \* the requests (and faults) an instance includes

ASSUME KeysAreDistinct == Feed \notin Slug /\ None \notin Slug \cup {Feed}
ASSUME BoundsAssumption == MaxVersion \in Nat /\ MaxCounted \in Nat

Key == Slug \cup {Feed}

VARIABLES
    slug,       \* news_articles.slug; None: no such row yet
    published,  \* articles with status PUBLISHED
    deletedAt,  \* soft-deleted articles
    version,    \* how often NewsService wrote the row
    counted,    \* how often BookmarkService wrote its bookmarkCount
    shown,      \* history: the (article, version, slug) that were public
    pc,         \* where each handler is
    art,        \* its article
    old,        \* the slug of the row it read (existing.slug)
    new,        \* the slug in its request, None when the request has none
    val,        \* the row or page it read and will store
    todo,       \* the cache commands it has still to send
    serial      \* history: no handlers have overlapped, and none has crashed

rowVars   == <<slug, published, deletedAt, version, counted, shown>>
localVars == <<art, old, new, val, todo>>
vars == <<slug, published, deletedAt, version, counted, shown, cache,
          expiring, pc, art, old, new, val, todo, serial>>

\* Plausible slips in the definitions below; only mutation runs use them.
PublicUnlessDeleted(a) == slug[a] # None /\ a \notin deletedAt
feedOfIds == {a \in Article : slug[a] # None /\ a \in published}
findLiveBySlug(k) == {a \in Article \ deletedAt : slug[a] = k}

Public(a) == slug[a] # None /\ a \in published /\ a \notin deletedAt

\* findBySlug, then the check of the status; a page of the feed.
Row(a)    == <<a, version[a], counted[a]>>
Lookup(k) == {Row(a) : a \in {b \in Article : Public(b) /\ slug[b] = k}}
findFeed  == {Row(a) : a \in {b \in Article : Public(b)}}
Current(key) == IF key = Feed THEN findFeed ELSE Lookup(key)

Label == {"idle", "slug.find", "feed.find", "store", "create.write",
          "update.conflict", "update.write", "delete.write", "view.write",
          "invalidate"}

Page == SUBSET (Article \X (0 .. MaxVersion) \X (0 .. MaxCounted))

TypeOK ==
    /\ slug \in [Article -> Slug \cup {None}]
    /\ published \subseteq Article
    /\ deletedAt \subseteq Article
    /\ version \in [Article -> 0 .. MaxVersion]
    /\ counted \in [Article -> 0 .. MaxCounted]
    /\ shown \subseteq Article \X (0 .. MaxVersion) \X Slug
    /\ cache \in [Key -> Page \cup {None}]
    /\ expiring \subseteq Key
    /\ pc \in [Request -> Label]
    /\ art \in [Request -> Article \cup {None}]
    /\ old \in [Request -> Key \cup {None}]
    /\ new \in [Request -> Slug \cup {None}]
    /\ val \in [Request -> Page]
    /\ todo \in [Request -> Seq({"keys", "feed", "old", "new"})]
    /\ serial \in BOOLEAN

Init ==
    /\ slug = [a \in Article |-> None]
    /\ published = {}
    /\ deletedAt = {}
    /\ version = [a \in Article |-> 0]
    /\ counted = [a \in Article |-> 0]
    /\ shown = {}
    /\ cache = [k \in Key |-> None]
    /\ expiring = {}
    /\ pc = [r \in Request |-> "idle"]
    /\ art = [r \in Request |-> None]
    /\ old = [r \in Request |-> None]
    /\ new = [r \in Request |-> None]
    /\ val = [r \in Request |-> {}]
    /\ todo = [r \in Request |-> <<>>]
    /\ serial = TRUE

-----------------------------------------------------------------------------
Goto(r, label) ==
    /\ pc' = [pc EXCEPT ![r] = label]
    /\ UNCHANGED localVars

Leave(r) ==
    /\ pc' = [pc EXCEPT ![r] = "idle"]
    /\ art' = [art EXCEPT ![r] = None]
    /\ old' = [old EXCEPT ![r] = None]
    /\ new' = [new EXCEPT ![r] = None]
    /\ val' = [val EXCEPT ![r] = {}]
    /\ todo' = [todo EXCEPT ![r] = <<>>]

\* The row is written: the handler goes on to the cache commands in keys.
Invalidate(r, keys) ==
    /\ pc' = [pc EXCEPT ![r] = "invalidate"]
    /\ todo' = [todo EXCEPT ![r] = keys]
    /\ UNCHANGED <<art, old, new, val>>

\* Every write NewsService makes to article a, a new version of its row.
Write(a, s, isPublished, isDeleted) ==
    /\ version[a] < MaxVersion
    /\ version' = [version EXCEPT ![a] = @ + 1]
    /\ slug' = [slug EXCEPT ![a] = s]
    /\ published' = IF isPublished THEN published \cup {a} ELSE published \ {a}
    /\ deletedAt' = IF isDeleted THEN deletedAt \cup {a} ELSE deletedAt
    /\ shown' = IF isPublished /\ ~isDeleted
                THEN shown \cup {<<a, version[a] + 1, s>>} ELSE shown
    /\ UNCHANGED counted

\* The look-up of create and update sees soft-deleted rows.
findBySlugIncludingDeleted(k) == {a \in Article : slug[a] = k}

\* The unique index on slug counts them too.
SlugTaken(s, a) == \E b \in Article \ {a} : slug[b] = s

cacheTtl == 300

-----------------------------------------------------------------------------
(* NewsService.getBySlug and getFeed.                                      *)

Read(r, key, label) ==
    /\ "read" \in Operations
    /\ pc[r] = "idle"
    /\ cache[key] = None
    /\ pc' = [pc EXCEPT ![r] = label]
    /\ old' = [old EXCEPT ![r] = key]
    /\ UNCHANGED <<rowVars, cacheVars, art, new, val, todo>>

GetBySlug(r, k) == Read(r, k, "slug.find")
GetFeed(r) == Read(r, Feed, "feed.find")

\* An article that is not there or not published is not found.
SlugFind(r) ==
    /\ pc[r] = "slug.find"
    /\ IF Lookup(old[r]) = {} THEN Leave(r)
       ELSE /\ pc' = [pc EXCEPT ![r] = "store"]
            /\ val' = [val EXCEPT ![r] = Lookup(old[r])]
            /\ UNCHANGED <<art, old, new, todo>>
    /\ UNCHANGED <<rowVars, cacheVars>>

FeedFind(r) ==
    /\ pc[r] = "feed.find"
    /\ pc' = [pc EXCEPT ![r] = "store"]
    /\ val' = [val EXCEPT ![r] = findFeed]
    /\ UNCHANGED <<rowVars, cacheVars, art, old, new, todo>>

Store(r) ==
    /\ pc[r] = "store"
    /\ set(old[r], val[r], cacheTtl)
    /\ Leave(r)
    /\ UNCHANGED rowVars

-----------------------------------------------------------------------------
(* NewsService.create.                                                     *)

\* A slug in use is rejected.
Create(r, k) ==
    /\ "create" \in Operations
    /\ pc[r] = "idle"
    /\ findBySlugIncludingDeleted(k) = {}
    /\ pc' = [pc EXCEPT ![r] = "create.write"]
    /\ new' = [new EXCEPT ![r] = k]
    /\ UNCHANGED <<rowVars, cacheVars, art, old, val, todo>>

\* The index throws when the slug has been taken since.  Only the feed is
\* invalidated.
CreateWrite(r, a, isPublished) ==
    /\ pc[r] = "create.write"
    /\ slug[a] = None
    /\ isPublished \/ "draft" \in Operations
    /\ IF SlugTaken(new[r], a)
       THEN Leave(r) /\ UNCHANGED rowVars
       ELSE /\ Write(a, new[r], isPublished, FALSE)
            /\ Invalidate(r, <<"keys">>)
    /\ UNCHANGED cacheVars

-----------------------------------------------------------------------------
\* A slip only mutation runs use: the view count is not news to the feed.
ViewWriteArticleOnly(r) ==
    LET a == art[r]
    IN  /\ pc[r] = "view.write"
        /\ Write(a, slug[a], a \in published, a \in deletedAt)
        /\ Invalidate(r, <<"old">>)
        /\ UNCHANGED cacheVars

(* NewsService.update, delete and incrementViewCount.                      *)

\* findById: a soft-deleted article is not found.
Find(r, op, a, k, label) ==
    /\ op \in Operations
    /\ pc[r] = "idle"
    /\ slug[a] # None /\ a \notin deletedAt
    /\ pc' = [pc EXCEPT ![r] = label]
    /\ art' = [art EXCEPT ![r] = a]
    /\ old' = [old EXCEPT ![r] = slug[a]]
    /\ new' = [new EXCEPT ![r] = k]
    /\ UNCHANGED <<rowVars, cacheVars, val, todo>>

\* A request that changes the slug looks it up first.
Update(r, a, k) ==
    Find(r, "update", a, k, IF k \notin {None, slug[a]} THEN "update.conflict"
                            ELSE "update.write")
Rename(r, a, k) == "rename" \in Operations /\ Update(r, a, k)
Edit(r, a) == Update(r, a, None)
Delete(r, a) == Find(r, "delete", a, None, "delete.write")
IncrementViewCount(r, a) == Find(r, "view", a, None, "view.write")

UpdateConflict(r) ==
    /\ pc[r] = "update.conflict"
    /\ IF findBySlugIncludingDeleted(new[r]) \subseteq {art[r]}
       THEN Goto(r, "update.write") ELSE Leave(r)
    /\ UNCHANGED <<rowVars, cacheVars>>

Renames(r) == new[r] \notin {None, old[r]}

UpdateWrite(r, isPublished) ==
    LET s == IF new[r] = None THEN slug[art[r]] ELSE new[r]
    IN  /\ pc[r] = "update.write"
        /\ isPublished \/ "draft" \in Operations
        /\ IF SlugTaken(s, art[r])
           THEN Leave(r) /\ UNCHANGED rowVars
           ELSE /\ Write(art[r], s, isPublished, art[r] \in deletedAt)
                /\ Invalidate(r, IF Renames(r) THEN <<"keys", "old", "new">>
                                 ELSE <<"keys", "old">>)
        /\ UNCHANGED cacheVars

DeleteWrite(r) ==
    LET a == art[r]
    IN  /\ pc[r] = "delete.write"
        /\ Write(a, slug[a], a \in published, TRUE)
        /\ Invalidate(r, <<"keys", "old">>)
        /\ UNCHANGED cacheVars

ViewWrite(r) ==
    LET a == art[r]
    IN  /\ pc[r] = "view.write"
        /\ Write(a, slug[a], a \in published, a \in deletedAt)
        /\ Invalidate(r, <<"old", "keys">>)
        /\ UNCHANGED cacheVars

-----------------------------------------------------------------------------
(* The cache commands of a writer, in order.                               *)

\* delByPattern sends KEYS, and DEL for the keys that KEYS returned.
InvalidateKeys(r) ==
    LET rest == Tail(todo[r])
    IN  /\ pc[r] = "invalidate"
        /\ Head(todo[r]) = "keys"
        /\ IF cache[Feed] = None /\ rest = <<>> THEN Leave(r)
           ELSE Invalidate(r, IF cache[Feed] = None THEN rest
                              ELSE <<"feed">> \o rest)
        /\ UNCHANGED <<rowVars, cacheVars>>

InvalidateKey(r) ==
    LET which == Head(todo[r])
        rest == Tail(todo[r])
    IN  /\ pc[r] = "invalidate"
        /\ which # "keys"
        /\ del(CASE which = "feed" -> Feed
                 [] which = "old" -> old[r]
                 [] which = "new" -> new[r])
        /\ IF rest = <<>> THEN Leave(r) ELSE Invalidate(r, rest)
        /\ UNCHANGED rowVars

-----------------------------------------------------------------------------
(* The environment.                                                        *)

\* BookmarkService counts a bookmark made or removed, in the row of an article
\* that was public once, and deletes no copy of it.
CountBookmark(a) ==
    /\ "bookmark" \in Operations
    /\ \E entry \in shown : entry[1] = a
    /\ counted[a] < MaxCounted
    /\ \A b \in Article \ {a} : counted[b] = 0
    /\ counted' = [counted EXCEPT ![a] = @ + 1]
    /\ UNCHANGED <<slug, published, deletedAt, version, shown, cacheVars, pc,
                   localVars, serial>>

Expire(key) ==
    /\ expire(key)
    /\ UNCHANGED <<rowVars, pc, localVars, serial>>

\* A process dies or a query fails: the rest of the handler never happens.
Abort(r) ==
    /\ "abort" \in Operations
    /\ pc[r] # "idle"
    /\ Leave(r)
    /\ serial' = FALSE
    /\ UNCHANGED <<rowVars, cacheVars>>

Begin(r) ==
    \/ \E k \in Slug : GetBySlug(r, k) \/ Create(r, k)
    \/ GetFeed(r)
    \/ \E a \in Article : Edit(r, a) \/ Delete(r, a) \/ IncrementViewCount(r, a)
    \/ \E a \in Article, k \in Slug : Rename(r, a, k)

Arrive(r) ==
    /\ Begin(r)
    /\ serial' = (serial /\ \A q \in Request : pc[q] = "idle")

Query(r) ==
    \/ SlugFind(r)
    \/ FeedFind(r)
    \/ Store(r)
    \/ \E a \in Article, p \in BOOLEAN : CreateWrite(r, a, p)
    \/ UpdateConflict(r)
    \/ \E p \in BOOLEAN : UpdateWrite(r, p)
    \/ DeleteWrite(r)
    \/ ViewWrite(r)
    \/ InvalidateKeys(r)
    \/ InvalidateKey(r)

Step(r) == Query(r) /\ UNCHANGED serial

Next ==
    \/ \E r \in Request : Arrive(r) \/ Step(r) \/ Abort(r)
    \/ \E key \in Key : Expire(key)
    \/ \E a \in Article : CountBookmark(a)

Spec == Init /\ [][Next]_vars

-----------------------------------------------------------------------------
Fresh(key) == cache[key] = None \/ cache[key] = Current(key)

\* As long as no handlers overlap or crash, a slug in use is found by the
\* look-up, and rejected as a conflict, before the unique index throws: also
\* one that only a soft-deleted article holds.
ConflictsAreFoundFirst ==
    [][\A r \in Request :
          serial /\ serial' /\ pc[r] \in {"create.write", "update.write"} =>
              pc'[r] \in {pc[r], "invalidate"}]_vars

\* Redis holds an article under a slug only in a version that was public
\* under that slug: no interleaving of reads with drafts, renames and
\* deletions publishes a row that never was.
OnlyShownIsCached ==
    \A k \in Slug : cache[k] # None =>
        \A entry \in cache[k] : <<entry[1], entry[2], k>> \in shown

\* What NewsService wrote of the articles of a page: all but the bookmarks.
Content(page) == {<<entry[1], entry[2]>> : entry \in page}
UpToDate(key) == cache[key] = None \/ Content(cache[key]) = Content(Current(key))

\* As long as no handlers have overlapped or crashed, every write of
\* NewsService leaves every cached copy it affects deleted: a copy is old only
\* while its writer is still at work.  Its bookmark count is not covered:
\* BookmarkService changes that and deletes no copy.
FreshBetweenRequests ==
    serial /\ (\A r \in Request : pc[r] = "idle") => \A key \in Key : UpToDate(key)

\* Readers that store what they read before a write, writers that crash
\* before they invalidate or that invalidate a slug the article no longer
\* has: whatever copy they leave, it does not outlive its time to live.
StaleCopiesExpire ==
    \A key \in Key : ~Fresh(key) ~> Fresh(key)
=============================================================================
