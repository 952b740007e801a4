------------------------------ MODULE Categories -------------------------------
(***************************************************************************)
(* The category tree and its cached copies (category.service.ts,           *)
(* category.repository.ts): the list of active categories, and the news    *)
(* feed of each category, which news.service.ts caches under its own key.  *)
(* The writers below delete the key of the list and no other.  Every       *)
(* category has articles, so its feed shows it while it is active.  The    *)
(* contents of a row are a version number that every write increases.      *)
(* None is also SQL null and an unset local.                               *)
(***************************************************************************)
EXTENDS RedisCache, FiniteSets

CONSTANTS Slug, Request,
          List,           \* the cache key of the list; a feed's key is its slug
          FeedSlug,       \* bound: the categories whose feeds are read
          MaxCategories,  \* bound on the rows
          MaxWrites,      \* bound on the writes to all rows
          Patches,        \* bound: the (slug, parentId) an update may carry
          Operations      \* the requests (and faults) an instance includes

\* Rows are numbered in the order in which they are created.
Category == 1 .. MaxCategories

Absent == 0  \* the parentId of a request that has none; None: it is null

Assumptions ==
    /\ List \notin Slug /\ FeedSlug \subseteq Slug
    /\ None \notin Slug \cup {List} \cup Nat
    /\ MaxCategories \in Nat /\ MaxWrites \in Nat
    /\ Patches \subseteq (Slug \cup {None}) \X (Category \cup {None, Absent})

Key == FeedSlug \cup {List}

VARIABLES
    slug,      \* categories.slug; None: no such row yet
    active,    \* the rows with isActive
    parent,    \* parentId
    version,   \* how often the row was written
    shown,     \* history: the (category, version, slug) that were active
    moved,     \* history: the rows whose parent an update set
    pc,        \* where each handler is
    cat,       \* the category in its path, None for a create
    new,       \* the slug in its request, None for none; a reader's key
    up,        \* the parentId in its request
    val,       \* the rows a reader found
    serial     \* history: no handlers have overlapped, and none has crashed

rowVars   == <<slug, active, parent, version, shown, moved>>
localVars == <<cat, new, up, val>>
vars == <<slug, active, parent, version, shown, moved, cache, expiring,
          pc, cat, new, up, val, serial>>

Label == {"idle", "find", "include", "store", "update.conflict", "parent.find",
          "write", "delete.write", "del"}
Row == Category \X (1 .. MaxWrites)

TypeOK ==
    /\ slug \in [Category -> Slug \cup {None}]
    /\ active \subseteq Category
    /\ parent \in [Category -> Category \cup {None}]
    /\ version \in [Category -> 0 .. MaxWrites]
    /\ shown \subseteq Row \X Slug
    /\ moved \subseteq Category
    /\ cache \in [Key -> (SUBSET Row) \cup {None}]
    /\ expiring \subseteq Key
    /\ pc \in [Request -> Label]
    /\ cat \in [Request -> Category \cup {None}]
    /\ new \in [Request -> Slug \cup {List, None}]
    /\ up \in [Request -> Category \cup {None, Absent}]
    /\ val \in [Request -> SUBSET Row]
    /\ serial \in BOOLEAN

Init ==
    /\ slug = [c \in Category |-> None]
    /\ active = {}
    /\ parent = [c \in Category |-> None]
    /\ version = [c \in Category |-> 0]
    /\ shown = {}
    /\ moved = {}
    /\ cache = [k \in Key |-> None]
    /\ expiring = {}
    /\ pc = [r \in Request |-> "idle"]
    /\ cat = [r \in Request |-> None]
    /\ new = [r \in Request |-> None]
    /\ up = [r \in Request |-> Absent]
    /\ val = [r \in Request |-> {}]
    /\ serial = TRUE

-----------------------------------------------------------------------------
\* Plausible slips in the definitions below; only mutation runs use them.
ActiveBySlug(k) == {c \in Category : slug[c] = k}
ParentMissing(c, p) == p \in Category /\ slug[p] = None

Exists(c) == slug[c] # None

\* findAllActive; the rows a feed filtered by categorySlug joins.
Active(k) == {c \in active : k \in {List, slug[c]}}
Rows(categories) == {<<c, version[c]>> : c \in categories}
Current(k) == Rows(Active(k))

\* findBySlugIncludingInactive, for a category other than c; and the unique
\* index on slug, which counts inactive rows too.
SlugTaken(k, c) == \E d \in Category \ {c} : slug[d] = k

\* The parent in the request of a handler for c is refused.  Categories are
\* never removed, so the foreign key of parentId always holds later.
ParentRefused(c, p) == p \in Category /\ (p = c \/ ~Exists(p))

Goto(r, label) ==
    /\ pc' = [pc EXCEPT ![r] = label]
    /\ UNCHANGED localVars

Enter(r, label, c, k, p) ==
    /\ pc[r] = "idle"
    /\ pc' = [pc EXCEPT ![r] = label]
    /\ cat' = [cat EXCEPT ![r] = c]
    /\ new' = [new EXCEPT ![r] = k]
    /\ up' = [up EXCEPT ![r] = p]
    /\ UNCHANGED val

Leave(r) ==
    /\ pc' = [pc EXCEPT ![r] = "idle"]
    /\ cat' = [cat EXCEPT ![r] = None]
    /\ new' = [new EXCEPT ![r] = None]
    /\ up' = [up EXCEPT ![r] = Absent]
    /\ val' = [val EXCEPT ![r] = {}]

\* Where a create or update goes once its slug is free.
ParentOrWrite(p) == IF p \in Category THEN "parent.find" ELSE "write"

\* The versions of all rows so far: how many writes there have been.
Written == {row \in Row : row[2] <= version[row[1]]}

\* Row c is written with slug k and parent p.
Write(c, k, p, isActive) ==
    /\ Cardinality(Written) < MaxWrites
    /\ version' = [version EXCEPT ![c] = @ + 1]
    /\ slug' = [slug EXCEPT ![c] = k]
    /\ parent' = [parent EXCEPT ![c] = p]
    /\ active' = IF isActive THEN active \cup {c} ELSE active \ {c}
    /\ shown' = IF isActive THEN shown \cup {<<<<c, version[c] + 1>>, k>>} ELSE shown

cacheTtl == 300

-----------------------------------------------------------------------------
(* CategoryService.getAll, and NewsService.getFeed for one category.       *)

Read(r, k) ==
    /\ "read" \in Operations
    /\ cache[k] = None
    /\ Enter(r, "find", None, k, Absent)
    /\ UNCHANGED <<rowVars, cacheVars>>

Found(r, label, rows) ==
    /\ pc' = [pc EXCEPT ![r] = label]
    /\ val' = [val EXCEPT ![r] = rows]
    /\ UNCHANGED <<rowVars, cacheVars, cat, new, up>>

\* The statement that selects the categories of the list, or the articles of
\* the feed.
Find(r) ==
    /\ pc[r] = "find"
    /\ Found(r, "include", Current(new[r]))

\* What the query includes comes in a statement of its own: in the list the
\* active children of the categories found, in a feed the category of each
\* article by its id, active or not and under whatever slug it then has.
Included(k, rows) ==
    LET ids == {row[1] : row \in rows}
    IN  IF k = List THEN rows \cup Rows({c \in active : parent[c] \in ids})
        ELSE Rows(ids)

Include(r) ==
    /\ pc[r] = "include"
    /\ Found(r, "store", Included(new[r], val[r]))

Store(r) ==
    /\ pc[r] = "store"
    /\ set(new[r], val[r], cacheTtl)
    /\ Leave(r)
    /\ UNCHANGED rowVars

-----------------------------------------------------------------------------
(* CategoryService.create, update and delete.                              *)

\* A slug in use is rejected.
Create(r, k, p) ==
    /\ "create" \in Operations
    /\ \A c \in Category : slug[c] # k
    /\ Enter(r, ParentOrWrite(p), None, k, p)
    /\ UNCHANGED <<rowVars, cacheVars>>

\* findById finds inactive categories too; k = None: no slug in the request.
Update(r, c, k, p) ==
    /\ "update" \in Operations
    /\ Exists(c) /\ <<k, p>> \in Patches
    /\ Enter(r, IF k \notin {None, slug[c]} THEN "update.conflict"
                ELSE ParentOrWrite(p), c, k, p)
    /\ UNCHANGED <<rowVars, cacheVars>>

UpdateConflict(r) ==
    /\ pc[r] = "update.conflict"
    /\ IF SlugTaken(new[r], cat[r]) THEN Leave(r) ELSE Goto(r, ParentOrWrite(up[r]))
    /\ UNCHANGED <<rowVars, cacheVars>>

ParentFind(r) ==
    /\ pc[r] = "parent.find"
    /\ IF ParentRefused(cat[r], up[r]) THEN Leave(r) ELSE Goto(r, "write")
    /\ UNCHANGED <<rowVars, cacheVars>>

\* The unique index throws when the slug has been taken since.
CreateWrite(r, c, isActive) ==
    /\ pc[r] = "write"
    /\ cat[r] = None
    /\ ~Exists(c) /\ \A d \in 1 .. c - 1 : Exists(d)
    /\ IF SlugTaken(new[r], c)
       THEN Leave(r) /\ UNCHANGED rowVars
       ELSE /\ Write(c, new[r], IF up[r] \in Category THEN up[r] ELSE None, isActive)
            /\ Goto(r, "del")
            /\ UNCHANGED moved
    /\ UNCHANGED cacheVars

\* A parentId that is null in the request skips the lookup and is written.
UpdateWrite(r, isActive) ==
    LET c == cat[r]
        k == IF new[r] = None THEN slug[c] ELSE new[r]
        p == IF up[r] = Absent THEN parent[c] ELSE up[r]
    IN  /\ pc[r] = "write"
        /\ c # None
        /\ IF SlugTaken(k, c)
           THEN Leave(r) /\ UNCHANGED rowVars
           ELSE /\ Write(c, k, p, isActive)
                /\ moved' = IF up[r] \in Category THEN moved \cup {c} ELSE moved
                /\ Goto(r, "del")
        /\ UNCHANGED cacheVars

Delete(r, c) ==
    /\ "delete" \in Operations
    /\ Exists(c)
    /\ Enter(r, "delete.write", c, None, Absent)
    /\ UNCHANGED <<rowVars, cacheVars>>

\* A slip only mutation runs use: the list is not deleted.
DeleteWriteOnly(r) ==
    LET c == cat[r]
    IN  /\ pc[r] = "delete.write"
        /\ Write(c, slug[c], parent[c], FALSE)
        /\ Leave(r)
        /\ UNCHANGED <<moved, cacheVars>>

\* CategoryRepository.delete keeps the row, its slug and its children.
DeleteWrite(r) ==
    LET c == cat[r]
    IN  /\ pc[r] = "delete.write"
        /\ Write(c, slug[c], parent[c], FALSE)
        /\ Goto(r, "del")
        /\ UNCHANGED <<moved, cacheVars>>

Del(r) ==
    /\ pc[r] = "del"
    /\ del(List)
    /\ Leave(r)
    /\ UNCHANGED rowVars

-----------------------------------------------------------------------------
\* Feeds also go when any article is written, which is no sooner than this.
Expire(k) ==
    /\ expire(k)
    /\ UNCHANGED <<rowVars, pc, localVars, serial>>

\* A process dies or a query fails: the rest of the handler never happens.
Abort(r) ==
    /\ "abort" \in Operations
    /\ pc[r] # "idle"
    /\ Leave(r)
    /\ serial' = FALSE
    /\ UNCHANGED <<rowVars, cacheVars>>

ParentId == Category \cup {None, Absent}

Begin(r) ==
    \/ \E k \in Key : Read(r, k)
    \/ \E k \in Slug, p \in ParentId : Create(r, k, p)
    \/ \E c \in Category, k \in Slug \cup {None}, p \in ParentId : Update(r, c, k, p)
    \/ \E c \in Category : Delete(r, c)

Arrive(r) ==
    /\ Begin(r)
    /\ serial' = (serial /\ \A q \in Request : pc[q] = "idle")

Query(r) ==
    \/ Find(r)
    \/ Include(r)
    \/ Store(r)
    \/ UpdateConflict(r)
    \/ ParentFind(r)
    \/ \E c \in Category, isActive \in BOOLEAN : CreateWrite(r, c, isActive)
    \/ \E isActive \in BOOLEAN : UpdateWrite(r, isActive)
    \/ DeleteWrite(r)
    \/ Del(r)

Step(r) == Query(r) /\ UNCHANGED serial

Next ==
    \/ \E r \in Request : Arrive(r) \/ Step(r) \/ Abort(r)
    \/ \E k \in Key : Expire(k)

Spec == Init /\ [][Next]_vars

-----------------------------------------------------------------------------
Fresh(k) == cache[k] \in {None, Current(k)}

\* create and update check one row at a time and never the tree.  What that
\* leaves true: a category is never its own parent, and the parent of one
\* that no update has moved was created before it.  So a loop always takes
\* an update that moved one of its categories, and a tree that is only ever
\* added to stays a tree.
LoopsNeedMoves ==
    \A c \in Category : parent[c] # None =>
        /\ parent[c] # c
        /\ c \notin moved => parent[c] < c

\* Until it got to this row, the category was once active under slug k.
WasActive(row, k) == \E v \in 1 .. row[2] : <<<<row[1], v>>, k>> \in shown

\* The cached list shows a category only in a version in which it was active.
\* A cached feed may show one that has been renamed or deactivated while the
\* feed was read, but only one that had been active under the slug of the feed
\* until then: no interleaving of reads with drafts, renames and deactivations
\* shows one that never was.
OnlyActiveIsCached ==
    \A k \in Key : cache[k] # None =>
        \A row \in cache[k] : IF k = List THEN \E s \in Slug : <<row, s>> \in shown
                             ELSE WasActive(row, k)

\* As long as no handlers have overlapped or crashed, the list is out of date
\* only while the writer that changed it is at work.  (A feed is not covered:
\* no writer of categories deletes it.)
ListFreshBetweenRequests ==
    serial /\ (\A r \in Request : pc[r] = "idle") => Fresh(List)
=============================================================================
