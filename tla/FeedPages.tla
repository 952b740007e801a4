------------------------------- MODULE FeedPages -------------------------------
(***************************************************************************)
(* The news feed as a client reads it, page after page                     *)
(* (news.repository.ts findFeed, news.service.ts getFeed), while articles  *)
(* are created, published, dated and removed.  Every page has its own      *)
(* cached copy; a page is two queries, of the items and of their number,   *)
(* and at Postgres' default isolation they may see different rows.  Which  *)
(* slug a writer looks up first, and the copies of single articles, are    *)
(* NewsCache's; the writer here is one handler, from the row it writes to  *)
(* the keys it deletes.  Times are numbers; None is also SQL null; a page  *)
(* is the set of the articles on it.                                       *)
(***************************************************************************)
EXTENDS RedisCache, FiniteSets

CONSTANTS MaxArticles,  \* bound on the rows
          MaxWrites,    \* bound on the writes
          Limits,       \* bound: the page sizes a client may ask for
          Dates,        \* bound: the dates an editor may set by hand
          Operations    \* the requests (and faults) an instance includes

\* Articles are numbered in the order of createdAt.
Article == 1 .. MaxArticles

Assumptions ==
    /\ MaxArticles \in Nat /\ MaxWrites \in Nat
    /\ Limits \subseteq Nat \ {0}
    /\ Dates \subseteq Nat /\ None \notin Nat

VARIABLES
    status,       \* "absent" until the row exists; "DRAFT", "PUBLISHED", "deleted"
    publishedAt,  \* the column, None for null
    writes,       \* how many writes there have been
    since,        \* history: when a reader would say it was published
    floated,      \* history: the articles an update published without a date
    writer,       \* where the writer is
    doomed,       \* the keys its KEYS command returned
    pc,           \* where the handler of the client's request is
    items, total, \* what it has read
    limit,        \* the page size the client always asks for
    page,         \* the page it asks for next; None when it rests
    seen,         \* the articles the client has been shown in this walk
    repeated,     \* history: it was shown one twice
    base,         \* history: the public articles when the walk began
    quiet,        \* history: nothing was written since, and no copy was stale
    growing,      \* history: nothing but new articles was written since
    serial        \* history: no handlers have overlapped, and none has crashed

rowVars  == <<status, publishedAt, writes, since, floated>>
writerVars == <<writer, doomed>>
queryVars == <<pc, items, total>>
walkVars == <<limit, page, seen, repeated, base>>
vars == <<status, publishedAt, writes, since, floated, cache, expiring, writer,
          doomed, pc, items, total, limit, page, seen, repeated, base, quiet, growing, serial>>

Page == 1 .. MaxArticles + 1
Listing == [items : SUBSET Article, totalPages : 0 .. MaxArticles]

TypeOK ==
    /\ status \in [Article -> {"absent", "DRAFT", "PUBLISHED", "deleted"}]
    /\ publishedAt \in [Article -> Nat \cup {None}]
    /\ writes \in 0 .. MaxWrites
    /\ since \in [Article -> Nat \cup {None}]
    /\ floated \subseteq Article
    /\ cache \in [Page -> Listing \cup {None}]
    /\ expiring \subseteq Page
    /\ writer \in {"idle", "keys", "del"}
    /\ doomed \subseteq Page
    /\ pc \in {"idle", "items", "count", "store"}
    /\ items \subseteq Article
    /\ total \in 0 .. MaxArticles
    /\ limit \in Limits
    /\ page \in Page \cup {None}
    /\ seen \subseteq Article
    /\ base \subseteq Article
    /\ {repeated, quiet, growing, serial} \subseteq BOOLEAN

Init ==
    /\ status = [a \in Article |-> "absent"]
    /\ publishedAt = [a \in Article |-> None]
    /\ writes = 0
    /\ since = [a \in Article |-> None]
    /\ floated = {}
    /\ cache = [p \in Page |-> None]
    /\ expiring = {}
    /\ writer = "idle"
    /\ doomed = {}
    /\ pc = "idle"
    /\ items = {}
    /\ total = 0
    /\ limit \in Limits
    /\ page = None
    /\ seen = {}
    /\ repeated = FALSE
    /\ base = {}
    /\ quiet = TRUE
    /\ growing = TRUE
    /\ serial = TRUE

-----------------------------------------------------------------------------
\* Plausible slips in the definitions below; only mutation runs use them.
skipFromPage(p) == p * limit
neverDated(isPublished, given, now) == given

Exists(a) == status[a] \notin {"absent", "deleted"}
Public == {a \in Article : status[a] = "PUBLISHED"}

\* ORDER BY publishedAt DESC, createdAt DESC: Postgres puts nulls first.
newestFirst(a, b) ==
    \/ publishedAt[a] = None /\ publishedAt[b] # None
    \/ publishedAt[a] = publishedAt[b] /\ a > b
    \/ None \notin {publishedAt[a], publishedAt[b]} /\ publishedAt[a] > publishedAt[b]

\* How many articles of the feed come before a: its row, counted from 0.
row(a) == Cardinality({b \in Public : newestFirst(b, a)})

skip(p) == (p - 1) * limit
totalPages(n) == (n + limit - 1) \div limit

\* OFFSET skip LIMIT limit.
findItems(p) == {a \in Public : skip(p) <= row(a) /\ row(a) < skip(p) + limit}
listing(is, n) == [items |-> is, totalPages |-> totalPages(n)]
Current(p) == listing(findItems(p), Cardinality(Public))
Fresh(p) == cache[p] \in {None, Current(p)}

cacheTtl == 300

-----------------------------------------------------------------------------
(* The client: it asks for one page after the other until the last.        *)

\* The answer l to the request for this page.
Receive(l) ==
    /\ seen' = seen \cup l.items
    /\ repeated' = (repeated \/ seen \cap l.items # {})
    /\ page' = IF page < l.totalPages THEN page + 1 ELSE None

Begin ==
    /\ "walk" \in Operations
    /\ page = None /\ pc = "idle"
    /\ page' = 1
    /\ seen' = {}
    /\ repeated' = FALSE
    /\ base' = Public
    /\ quiet' = (writer = "idle" /\ \A p \in Page : Fresh(p))
    /\ growing' = TRUE
    /\ UNCHANGED <<rowVars, cacheVars, writerVars, queryVars, limit, serial>>

\* NewsService.getFeed: a copy in Redis is the answer.
GetFeed ==
    /\ page # None /\ pc = "idle"
    /\ IF cache[page] = None
       THEN pc' = "items" /\ UNCHANGED <<page, seen, repeated>>
       ELSE Receive(cache[page]) /\ UNCHANGED pc
    /\ serial' = (serial /\ writer = "idle")
    /\ UNCHANGED <<rowVars, cacheVars, writerVars, items, total, limit, base, quiet, growing>>

FindItems ==
    /\ pc = "items"
    /\ pc' = "count"
    /\ items' = findItems(page)
    /\ UNCHANGED <<rowVars, cacheVars, writerVars, total, walkVars, quiet, growing, serial>>

Count ==
    /\ pc = "count"
    /\ pc' = "store"
    /\ total' = Cardinality(Public)
    /\ UNCHANGED <<rowVars, cacheVars, writerVars, items, walkVars, quiet, growing, serial>>

Store ==
    /\ pc = "store"
    /\ set(page, listing(items, total), cacheTtl)
    /\ Receive(listing(items, total))
    /\ pc' = "idle"
    /\ items' = {}
    /\ total' = 0
    /\ UNCHANGED <<rowVars, writerVars, limit, base, quiet, growing, serial>>

-----------------------------------------------------------------------------
(* The writer: NewsService.create, update and delete.                      *)

Write(a, s, date, publication, isNew) ==
    /\ writer = "idle"
    /\ writes < MaxWrites
    /\ writes' = writes + 1
    /\ status' = [status EXCEPT ![a] = s]
    /\ publishedAt' = [publishedAt EXCEPT ![a] = date]
    /\ since' = [since EXCEPT ![a] = publication]
    /\ writer' = "keys"
    /\ quiet' = FALSE
    /\ growing' = (growing /\ isNew)
    /\ serial' = (serial /\ pc = "idle")
    /\ UNCHANGED <<cacheVars, doomed, queryVars, walkVars>>

\* What create writes: an article created as PUBLISHED gets the time of its
\* creation unless the request has a date.
dateOf(isPublished, given, now) ==
    IF isPublished /\ given = None THEN now ELSE given

\* Time passes between two creations: now is the number of the new row.
Create(a, isPublished, given) ==
    LET date == dateOf(isPublished, given, a)
    IN  /\ "create" \in Operations
        /\ status[a] = "absent" /\ \A b \in 1 .. a - 1 : status[b] # "absent"
        /\ Write(a, IF isPublished THEN "PUBLISHED" ELSE "DRAFT", date,
                 IF given = None THEN a ELSE given, TRUE)
        /\ UNCHANGED floated

\* update writes the status of the request, and its date if it has one: a
\* new date, null, or else the one the row has.  Publishing sets no date.
Update(a, isPublished, date) ==
    /\ "update" \in Operations
    /\ Exists(a)
    /\ Write(a, IF isPublished THEN "PUBLISHED" ELSE "DRAFT", date,
             IF date \in {None, publishedAt[a]} THEN since[a] ELSE date, FALSE)
    /\ floated' = IF date = None THEN floated \cup {a} ELSE floated \ {a}

Delete(a) ==
    /\ "delete" \in Operations
    /\ Exists(a)
    /\ Write(a, "deleted", publishedAt[a], since[a], FALSE)
    /\ UNCHANGED floated

\* delByPattern: KEYS, then DEL of the keys that KEYS returned, if any.
Keys ==
    LET keys == {p \in Page : cache[p] # None}
    IN  /\ writer = "keys"
        /\ writer' = IF keys = {} THEN "idle" ELSE "del"
        /\ doomed' = keys
        /\ UNCHANGED <<rowVars, cacheVars, queryVars, walkVars, quiet, growing, serial>>

\* A slip only mutation runs use: the other pages stay.
DelFirstPage ==
    /\ writer = "del"
    /\ writer' = "idle"
    /\ del(1)
    /\ doomed' = {}
    /\ UNCHANGED <<rowVars, queryVars, walkVars, quiet, growing, serial>>

Del ==
    /\ writer = "del"
    /\ writer' = "idle"
    /\ delAll(doomed)
    /\ doomed' = {}
    /\ UNCHANGED <<rowVars, queryVars, walkVars, quiet, growing, serial>>

-----------------------------------------------------------------------------
Expire(p) ==
    /\ expire(p)
    /\ UNCHANGED <<rowVars, writerVars, queryVars, walkVars, quiet, growing, serial>>

\* The writer's process dies between the row and the keys.
Abort ==
    /\ "abort" \in Operations
    /\ writer # "idle"
    /\ writer' = "idle"
    /\ doomed' = {}
    /\ serial' = FALSE
    /\ UNCHANGED <<rowVars, cacheVars, queryVars, walkVars, quiet, growing>>

Next ==
    \/ Begin \/ GetFeed \/ FindItems \/ Count \/ Store
    \/ \E a \in Article, isPublished \in BOOLEAN :
        \/ \E given \in Dates \cup {None} : Create(a, isPublished, given)
        \/ \E date \in Dates \cup {None, publishedAt[a]} : Update(a, isPublished, date)
    \/ \E a \in Article : Delete(a)
    \/ Keys \/ Del \/ Abort
    \/ \E p \in Page : Expire(p)

Spec == Init /\ [][Next]_vars

-----------------------------------------------------------------------------
\* The feed is in the order in which its articles were published: at the date
\* an editor gave, else at their creation.  The exceptions are the articles
\* that an update has left without a date, as publishing a draft does: these
\* come before all the others.
InOrderOfPublication ==
    \A a \in Public, b \in Public \ floated :
        a \in floated \/ since[a] > since[b] => row(a) < row(b)

\* A client that pages through the feed while nothing is written sees every
\* article once: no page boundary drops or repeats one.
QuietWalkIsExact ==
    page = None /\ quiet => seen = base /\ ~repeated

\* A client that pages through the feed while articles are added may see some
\* twice, but misses none that was there when it began, wherever their dates
\* put the new ones.  (A removed or redated article, or pages cached by
\* handlers that overlapped, can make it miss one.)
GrowthHidesNothing ==
    page = None /\ growing /\ serial => base \subseteq seen
=============================================================================
