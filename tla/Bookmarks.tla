------------------------------- MODULE Bookmarks -------------------------------
(***************************************************************************)
(* Bookmarks and the bookmarkCount column of articles (bookmark.service.ts,*)
(* bookmark.repository.ts).  The bookmark row and the counter are written  *)
(* by two queries without a transaction, and each handler decides on rows  *)
(* it read in an earlier query; the unique index on (userId, articleId) is *)
(* all that stops two of them from doing the same thing.                   *)
(***************************************************************************)
EXTENDS Integers, FiniteSets

CONSTANTS User, Article, Request,
          None,       \* an unset local
          MaxLost     \* bound on the number of handlers that crash

ASSUME UserAssumption == IsFiniteSet(User)
ASSUME RequestAssumption == IsFiniteSet(Request)
ASSUME MaxLostAssumption == MaxLost \in Nat

VARIABLES
    published,      \* articles with status PUBLISHED and no deletedAt
    bookmark,       \* rows of the bookmarks table
    bookmarkCount,  \* news_articles.bookmarkCount
    pc, usr, art,   \* where each handler is, its user and its article
    lost,           \* history: how many handlers have crashed
    drift           \* history: increments minus decrements lost to crashes

rowVars == <<published, bookmark, bookmarkCount>>
historyVars == <<lost, drift>>
vars == <<published, bookmark, bookmarkCount, pc, usr, art, lost, drift>>

Label == {"idle", "add.existing", "add.create", "add.count",
          "remove.delete", "remove.count"}

TypeOK ==
    /\ published \subseteq Article
    /\ bookmark \subseteq User \X Article
    /\ bookmarkCount \in [Article -> Int]
    /\ pc \in [Request -> Label]
    /\ usr \in [Request -> User \cup {None}]
    /\ art \in [Request -> Article \cup {None}]
    /\ \A r \in Request : pc[r] # "idle" => usr[r] \in User /\ art[r] \in Article
    /\ lost \in 0 .. MaxLost
    /\ drift \in [Article -> Int]

Init ==
    /\ published = Article
    /\ bookmark = {}
    /\ bookmarkCount = [a \in Article |-> 0]
    /\ pc = [r \in Request |-> "idle"]
    /\ usr = [r \in Request |-> None]
    /\ art = [r \in Request |-> None]
    /\ lost = 0
    /\ drift = [a \in Article |-> 0]

-----------------------------------------------------------------------------
Goto(r, label) ==
    /\ pc' = [pc EXCEPT ![r] = label]
    /\ UNCHANGED <<usr, art>>

Leave(r) ==
    /\ pc' = [pc EXCEPT ![r] = "idle"]
    /\ usr' = [usr EXCEPT ![r] = None]
    /\ art' = [art EXCEPT ![r] = None]

Row(r) == <<usr[r], art[r]>>

\* Plausible slips in the operations below; only mutation runs use them.
setCountToMarks(a, n) ==
    bookmarkCount' = [bookmarkCount EXCEPT ![a] =
        Cardinality({u \in User : <<u, a>> \in bookmark}) + n]

AddCreateUpsert(r) ==
    /\ pc[r] = "add.create"
    /\ Goto(r, "add.count")
    /\ bookmark' = bookmark \cup {Row(r)}
    /\ UNCHANGED <<published, bookmarkCount, historyVars>>

RemoveDeleteMany(r) ==
    /\ pc[r] = "remove.delete"
    /\ Goto(r, "remove.count")
    /\ bookmark' = bookmark \ {Row(r)}
    /\ UNCHANGED <<published, bookmarkCount, historyVars>>

BeginAnonymous(r, u, a, label) ==
    /\ pc[r] = "idle"
    /\ pc' = [pc EXCEPT ![r] = label]
    /\ usr' = [usr EXCEPT ![r] = None]
    /\ art' = [art EXCEPT ![r] = a]

Begin(r, u, a, label) ==
    /\ pc[r] = "idle"
    /\ pc' = [pc EXCEPT ![r] = label]
    /\ usr' = [usr EXCEPT ![r] = u]
    /\ art' = [art EXCEPT ![r] = a]

\* The atomic increment or decrement of Prisma's update.
addToCount(a, n) == bookmarkCount' = [bookmarkCount EXCEPT ![a] = @ + n]

-----------------------------------------------------------------------------
(* BookmarkService.addBookmark.                                            *)

\* newsArticle.findFirst; an unpublished article is not found.
AddBookmark(r, u, a) ==
    /\ a \in published
    /\ Begin(r, u, a, "add.existing")
    /\ UNCHANGED <<rowVars, historyVars>>

AddExisting(r) ==
    /\ pc[r] = "add.existing"
    /\ IF Row(r) \in bookmark THEN Leave(r) ELSE Goto(r, "add.create")
    /\ UNCHANGED <<rowVars, historyVars>>

\* create: the unique index throws when the row has appeared since.
AddCreate(r) ==
    /\ pc[r] = "add.create"
    /\ IF Row(r) \in bookmark THEN Leave(r) ELSE Goto(r, "add.count")
    /\ bookmark' = bookmark \cup {Row(r)}
    /\ UNCHANGED <<published, bookmarkCount, historyVars>>

AddCount(r) ==
    /\ pc[r] = "add.count"
    /\ addToCount(art[r], 1)
    /\ Leave(r)
    /\ UNCHANGED <<published, bookmark, historyVars>>

-----------------------------------------------------------------------------
(* BookmarkService.removeBookmark.                                         *)

RemoveBookmark(r, u, a) ==
    /\ <<u, a>> \in bookmark
    /\ Begin(r, u, a, "remove.delete")
    /\ UNCHANGED <<rowVars, historyVars>>

\* delete: Prisma throws when the row has gone since.
RemoveDelete(r) ==
    /\ pc[r] = "remove.delete"
    /\ IF Row(r) \in bookmark THEN Goto(r, "remove.count") ELSE Leave(r)
    /\ bookmark' = bookmark \ {Row(r)}
    /\ UNCHANGED <<published, bookmarkCount, historyVars>>

RemoveCount(r) ==
    /\ pc[r] = "remove.count"
    /\ addToCount(art[r], -1)
    /\ Leave(r)
    /\ UNCHANGED <<published, bookmark, historyVars>>

-----------------------------------------------------------------------------
(* The environment.                                                        *)

\* An editor archives, deletes or publishes an article (news.service.ts).
TogglePublished(a) ==
    /\ published' = IF a \in published THEN published \ {a} ELSE published \cup {a}
    /\ UNCHANGED <<bookmark, bookmarkCount, pc, usr, art, historyVars>>

\* A process dies or a query fails: the rest of the handler never happens.
Abort(r) ==
    /\ pc[r] # "idle"
    /\ lost < MaxLost
    /\ lost' = lost + 1
    /\ drift' = [drift EXCEPT ![art[r]] =
                    @ + (IF pc[r] = "add.count" THEN 1
                         ELSE IF pc[r] = "remove.count" THEN -1 ELSE 0)]
    /\ Leave(r)
    /\ UNCHANGED rowVars

Step(r) == AddExisting(r) \/ AddCreate(r) \/ AddCount(r)
             \/ RemoveDelete(r) \/ RemoveCount(r)

Next ==
    \/ \E r \in Request, u \in User, a \in Article :
          AddBookmark(r, u, a) \/ RemoveBookmark(r, u, a)
    \/ \E r \in Request : Step(r) \/ Abort(r)
    \/ \E a \in Article : TogglePublished(a)

Spec == Init /\ [][Next]_vars

-----------------------------------------------------------------------------
Marks(a) == {u \in User : <<u, a>> \in bookmark}
At(label, a) == {r \in Request : pc[r] = label /\ art[r] = a}

\* The counter of an article is the number of its bookmarks, up to the
\* handlers that have written the row and not yet the counter, and to those
\* that crashed there: no double add, double remove or add racing a remove
\* counts a bookmark twice or forgets one.
CountConserved ==
    \A a \in Article :
        bookmarkCount[a] + Cardinality(At("add.count", a)) + drift[a]
            = Cardinality(Marks(a)) + Cardinality(At("remove.count", a))

\* Handlers that do not crash leave the counter exact once they are done,
\* and a crash puts it off by at most one, for good.
ExactWhenIdle ==
    (\A r \in Request : pc[r] = "idle") =>
        \A a \in Article :
            LET off == bookmarkCount[a] - Cardinality(Marks(a))
            IN  -lost <= off /\ off <= lost

\* A reader may see a negative counter, but never below the number of
\* handlers that still have to add their own bookmark to it or crashed.
BoundedBelow ==
    \A a \in Article :
        bookmarkCount[a] + Cardinality(At("add.count", a)) + lost >= 0
=============================================================================
