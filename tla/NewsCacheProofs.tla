---------------------------- MODULE NewsCacheProofs ----------------------------
(***************************************************************************)
(* Proofs about NewsCache, for any number of articles, slugs and handlers: *)
(* types, that Redis shows no article in a version, or under a slug, in    *)
(* which it was not public, and that requests that do not overlap leave no *)
(* copy behind that is older than what NewsService wrote.  They rest on    *)
(* facts the properties do not mention: that history follows the rows,     *)
(* that what a handler has read and not yet stored was public too, and     *)
(* that a handler has still to delete whatever it made old.                *)
(***************************************************************************)
EXTENDS NewsCache, SequenceTheorems, TLAPS

\* What a handler may rely on between two of its queries.
Locals ==
    \A r \in Request :
        /\ pc[r] = "slug.find" => old[r] \in Slug
        /\ pc[r] = "feed.find" => old[r] = Feed
        /\ pc[r] = "store" => old[r] \in Key
        /\ pc[r] \in {"create.write", "update.conflict"} => new[r] \in Slug
        /\ pc[r] \in {"update.conflict", "update.write", "delete.write", "view.write"} =>
             art[r] \in Article /\ slug[art[r]] \in Slug
        /\ pc[r] = "invalidate" => todo[r] # <<>>

WellFormed == TypeOK /\ Locals

\* The history has every article that is public.
PublicIsShown ==
    \A a \in Article : Public(a) => <<a, version[a], slug[a]>> \in shown

\* A page may be kept under key: it shows only what was public under it.
MayKeep(key, page) ==
    key \in Slug => \A entry \in page : <<entry[1], entry[2], key>> \in shown

CopiesWereShown ==
    /\ \A k \in Slug : cache[k] # None => MayKeep(k, cache[k])
    /\ \A r \in Request : pc[r] = "store" => MayKeep(old[r], val[r])

-----------------------------------------------------------------------------
(* Types.                                                                  *)

\* Writing a row that exists, or is about to, keeps the tables well typed.
LEMMA WriteType ==
    ASSUME TypeOK, NEW a \in Article, NEW s \in Slug, NEW p \in BOOLEAN,
           NEW d \in BOOLEAN, Write(a, s, p, d)
    PROVE  /\ slug' \in [Article -> Slug \cup {None}]
           /\ published' \subseteq Article
           /\ deletedAt' \subseteq Article
           /\ version' \in [Article -> 0 .. MaxVersion]
           /\ counted' \in [Article -> 0 .. MaxCounted]
           /\ shown' \subseteq Article \X (0 .. MaxVersion) \X Slug
           /\ slug' = [slug EXCEPT ![a] = s]
<1> USE BoundsAssumption DEF TypeOK, Write
<1>1. version[a] + 1 \in 0 .. MaxVersion
  OBVIOUS
<1>2. /\ slug' \in [Article -> Slug \cup {None}]
      /\ published' \subseteq Article
      /\ deletedAt' \subseteq Article
      /\ version' \in [Article -> 0 .. MaxVersion]
      /\ counted' \in [Article -> 0 .. MaxCounted]
      /\ slug' = [slug EXCEPT ![a] = s]
  BY <1>1
<1>3. shown' \subseteq Article \X (0 .. MaxVersion) \X Slug
  BY <1>1
<1>4. QED
  BY <1>2, <1>3

\* What a reader finds is a page.
LEMMA CurrentIsPage ==
    ASSUME TypeOK
    PROVE  findFeed \in Page /\ \A k : Lookup(k) \in Page
BY DEF TypeOK, findFeed, Lookup, Row, Page

\* A handler that leaves, or writes a row, is well formed afterwards.
LEMMA LeaveWellFormed ==
    ASSUME WellFormed, NEW r \in Request, Leave(r), UNCHANGED <<rowVars, cacheVars>>,
           serial' \in BOOLEAN
    PROVE  WellFormed'
<1> USE DEF WellFormed, TypeOK, Locals, Label, Leave, rowVars, cacheVars, Page
<1>1. <<>> \in Seq({"keys", "feed", "old", "new"})
  OBVIOUS
<1>2. TypeOK'
  BY <1>1
<1>3. Locals'
  OBVIOUS
<1>4. QED
  BY <1>2, <1>3

\* A write of an article keeps the types and what its handler remembers.
LEMMA WriteWellFormed ==
    ASSUME WellFormed, NEW r \in Request, NEW a \in Article, NEW s \in Slug,
           NEW p \in BOOLEAN, NEW d \in BOOLEAN, Write(a, s, p, d),
           NEW keys \in Seq({"keys", "feed", "old", "new"}), keys # <<>>,
           Invalidate(r, keys), UNCHANGED <<cache, expiring, serial>>
    PROVE  WellFormed'
<1>1. /\ slug' \in [Article -> Slug \cup {None}]
      /\ published' \subseteq Article
      /\ deletedAt' \subseteq Article
      /\ version' \in [Article -> 0 .. MaxVersion]
      /\ counted' \in [Article -> 0 .. MaxCounted]
      /\ shown' \subseteq Article \X (0 .. MaxVersion) \X Slug
      /\ slug' = [slug EXCEPT ![a] = s]
  BY WriteType DEF WellFormed
<1>2. /\ pc' = [pc EXCEPT ![r] = "invalidate"]
      /\ todo' = [todo EXCEPT ![r] = keys]
      /\ UNCHANGED <<art, old, new, val>>
  BY DEF Invalidate
<1>3. TypeOK'
  BY <1>1, <1>2 DEF WellFormed, TypeOK, Label
<1>4. Locals'
  BY <1>1, <1>2 DEF WellFormed, TypeOK, Locals
<1>5. QED
  BY <1>3, <1>4 DEF WellFormed

\* So is one that has changed the cache, or only its locals.
LEMMA GoOnWellFormed ==
    ASSUME WellFormed, NEW r \in Request, UNCHANGED rowVars, TypeOK',
           \A q \in Request \ {r} :
               UNCHANGED <<pc[q], art[q], old[q], new[q], todo[q]>>,
           /\ pc'[r] = "slug.find" => old'[r] \in Slug
           /\ pc'[r] = "feed.find" => old'[r] = Feed
           /\ pc'[r] = "store" => old'[r] \in Key
           /\ pc'[r] \in {"create.write", "update.conflict"} => new'[r] \in Slug
           /\ pc'[r] \in {"update.conflict", "update.write", "delete.write", "view.write"} =>
                art'[r] \in Article /\ slug[art'[r]] \in Slug
           /\ pc'[r] = "invalidate" => todo'[r] # <<>>
    PROVE  WellFormed'
BY DEF WellFormed, TypeOK, Locals, rowVars

\* The first query of a handler does, too.
LEMMA ArriveWellFormed ==
    ASSUME WellFormed, NEW r \in Request, Arrive(r)
    PROVE  WellFormed'
<1> USE KeysAreDistinct DEF WellFormed, TypeOK, Label, Key, rowVars, cacheVars
<1>1. serial' \in BOOLEAN
  BY DEF Arrive
<1>2. CASE \E k \in Slug : GetBySlug(r, k)
  <2>1. TypeOK'
    BY <1>1, <1>2 DEF GetBySlug, Read
  <2>2. Locals'
    BY <1>2 DEF Locals, GetBySlug, Read
  <2>3. QED
    BY <2>1, <2>2
<1>3. CASE GetFeed(r)
  <2>1. TypeOK'
    BY <1>1, <1>3 DEF GetFeed, Read
  <2>2. Locals'
    BY <1>3 DEF Locals, GetFeed, Read
  <2>3. QED
    BY <2>1, <2>2
<1>4. CASE \E k \in Slug : Create(r, k)
  <2>1. TypeOK'
    BY <1>1, <1>4 DEF Create
  <2>2. Locals'
    BY <1>4 DEF Locals, Create
  <2>3. QED
    BY <2>1, <2>2
<1>5. ASSUME NEW a \in Article, NEW k \in Slug \cup {None}, NEW op, NEW label,
             Find(r, op, a, k, label),
             label \in {"update.conflict", "update.write", "delete.write", "view.write"},
             label = "update.conflict" => k \in Slug
      PROVE  WellFormed'
  <2>1. slug[a] \in Slug
    BY <1>5 DEF Find
  <2>2. /\ pc' = [pc EXCEPT ![r] = label]
        /\ art' = [art EXCEPT ![r] = a]
        /\ old' = [old EXCEPT ![r] = slug[a]]
        /\ new' = [new EXCEPT ![r] = k]
        /\ UNCHANGED <<slug, published, deletedAt, version, counted, shown, cache,
                       expiring, val, todo>>
    BY <1>5 DEF Find
  <2>3. TypeOK'
    BY <1>1, <1>5, <2>1, <2>2
  <2>4. Locals'
    BY <1>5, <2>1, <2>2 DEF Locals
  <2>5. QED
    BY <2>3, <2>4
<1>6. ASSUME NEW a \in Article, NEW k \in Slug \cup {None}, Update(r, a, k)
      PROVE  WellFormed'
  BY <1>5, <1>6 DEF Update
<1>7. CASE \E a \in Article : Edit(r, a) \/ Delete(r, a) \/ IncrementViewCount(r, a)
  BY <1>5, <1>6, <1>7 DEF Edit, Delete, IncrementViewCount
<1>8. CASE \E a \in Article, k \in Slug : Rename(r, a, k)
  BY <1>6, <1>8 DEF Rename
<1>9. QED
  BY <1>2, <1>3, <1>4, <1>7, <1>8 DEF Arrive, Begin

\* And each later one.
LEMMA QueryWellFormed ==
    ASSUME WellFormed, NEW r \in Request, Query(r), UNCHANGED serial
    PROVE  WellFormed'
<1> USE KeysAreDistinct DEF WellFormed
<1>1. CASE SlugFind(r)
  <2>1. CASE Lookup(old[r]) = {}
    BY <1>1, <2>1, LeaveWellFormed DEF SlugFind, TypeOK
  <2>2. CASE Lookup(old[r]) # {}
    <3>1. /\ pc' = [pc EXCEPT ![r] = "store"]
          /\ val' = [val EXCEPT ![r] = Lookup(old[r])]
          /\ UNCHANGED <<art, old, new, todo, rowVars, cacheVars>>
      BY <1>1, <2>2 DEF SlugFind
    <3>2. Lookup(old[r]) \in Page /\ old[r] \in Key
      BY <1>1, CurrentIsPage DEF SlugFind, Locals, Key
    <3>3. TypeOK'
      BY <3>1, <3>2 DEF TypeOK, Label, rowVars, cacheVars
    <3>4. QED
      BY <3>1, <3>2, <3>3, GoOnWellFormed DEF TypeOK
  <2>3. QED
    BY <2>1, <2>2
<1>2. CASE FeedFind(r)
  <2>1. findFeed \in Page /\ old[r] \in Key
    BY <1>2, CurrentIsPage DEF FeedFind, Locals, Key
  <2>2. TypeOK'
    BY <1>2, <2>1 DEF FeedFind, TypeOK, Label, rowVars, cacheVars
  <2>3. QED
    BY <1>2, <2>1, <2>2, GoOnWellFormed DEF FeedFind, TypeOK
<1>3. CASE Store(r)
  <2>1. /\ old[r] \in Key
        /\ cache' = [cache EXCEPT ![old[r]] = val[r]]
        /\ expiring' \subseteq expiring \cup {old[r]}
        /\ UNCHANGED <<slug, published, deletedAt, version, counted, shown>>
    BY <1>3 DEF Store, set, Locals, rowVars, cacheTtl
  <2>2. cache' \in [Key -> Page \cup {None}] /\ expiring' \subseteq Key
    BY <2>1 DEF TypeOK
  <2>3. TypeOK' /\ Locals'
    BY <1>3, <2>1, <2>2 DEF Store, Leave, TypeOK, Label, Locals, Page
  <2>4. QED
    BY <2>3
<1>4. ASSUME NEW a \in Article, NEW p \in BOOLEAN, CreateWrite(r, a, p)
      PROVE  WellFormed'
  <2>1. new[r] \in Slug
    BY <1>4 DEF CreateWrite, Locals
  <2>2. CASE SlugTaken(new[r], a)
    BY <1>4, <2>2, LeaveWellFormed DEF CreateWrite, TypeOK
  <2>3. CASE ~SlugTaken(new[r], a)
    <3>1. <<"keys">> \in Seq({"keys", "feed", "old", "new"}) /\ <<"keys">> # <<>>
      OBVIOUS
    <3>2. QED
      BY <1>4, <2>1, <2>3, <3>1, WriteWellFormed DEF CreateWrite, cacheVars
  <2>4. QED
    BY <2>2, <2>3
<1>5. CASE UpdateConflict(r)
  <2>1. CASE ~(findBySlugIncludingDeleted(new[r]) \subseteq {art[r]})
    BY <1>5, <2>1, LeaveWellFormed DEF UpdateConflict, TypeOK
  <2>2. CASE findBySlugIncludingDeleted(new[r]) \subseteq {art[r]}
    <3>1. TypeOK'
      BY <1>5, <2>2 DEF UpdateConflict, Goto, localVars, rowVars, cacheVars, TypeOK, Label
    <3>2. QED
      BY <1>5, <2>2, <3>1, GoOnWellFormed DEF UpdateConflict, Goto, localVars, TypeOK, Locals
  <2>3. QED
    BY <2>1, <2>2
<1>6. ASSUME NEW p \in BOOLEAN, UpdateWrite(r, p)
      PROVE  WellFormed'
  <2> DEFINE s == IF new[r] = None THEN slug[art[r]] ELSE new[r]
             keys == IF Renames(r) THEN <<"keys", "old", "new">> ELSE <<"keys", "old">>
  <2>1. art[r] \in Article /\ s \in Slug
    BY <1>6 DEF UpdateWrite, Locals, TypeOK
  <2>2. CASE SlugTaken(s, art[r])
    BY <1>6, <2>2, LeaveWellFormed DEF UpdateWrite, TypeOK
  <2>3. CASE ~SlugTaken(s, art[r])
    <3>1. keys \in Seq({"keys", "feed", "old", "new"}) /\ keys # <<>>
      <4>1. CASE Renames(r)
        BY <4>1
      <4>2. CASE ~Renames(r)
        BY <4>2
      <4>3. QED
        BY <4>1, <4>2
    <3>2. (art[r] \in deletedAt) \in BOOLEAN
      OBVIOUS
    <3>3. /\ Write(art[r], s, p, art[r] \in deletedAt)
          /\ Invalidate(r, keys)
          /\ UNCHANGED cacheVars
      BY <1>6, <2>3 DEF UpdateWrite
    <3> HIDE DEF s, keys
    <3>4. QED
      BY <2>1, <3>1, <3>2, <3>3, WriteWellFormed DEF cacheVars
  <2>4. QED
    BY <2>2, <2>3
<1>7. CASE DeleteWrite(r) \/ ViewWrite(r)
  <2>1. art[r] \in Article /\ slug[art[r]] \in Slug
    BY <1>7 DEF DeleteWrite, ViewWrite, Locals
  <2>2. CASE DeleteWrite(r)
    <3>1. /\ <<"keys", "old">> \in Seq({"keys", "feed", "old", "new"})
          /\ <<"keys", "old">> # <<>>
      OBVIOUS
    <3>2. /\ (art[r] \in published) \in BOOLEAN
          /\ (TRUE) \in BOOLEAN
      OBVIOUS
    <3>3. /\ Write(art[r], slug[art[r]], art[r] \in published, TRUE)
          /\ Invalidate(r, <<"keys", "old">>)
          /\ UNCHANGED cacheVars
      BY <2>2 DEF DeleteWrite
    <3>4. QED
      BY <2>1, <3>1, <3>2, <3>3, WriteWellFormed DEF cacheVars
  <2>3. CASE ViewWrite(r)
    <3>1. /\ <<"old", "keys">> \in Seq({"keys", "feed", "old", "new"})
          /\ <<"old", "keys">> # <<>>
      OBVIOUS
    <3>2. /\ (art[r] \in published) \in BOOLEAN
          /\ (art[r] \in deletedAt) \in BOOLEAN
      OBVIOUS
    <3>3. /\ Write(art[r], slug[art[r]], art[r] \in published, art[r] \in deletedAt)
          /\ Invalidate(r, <<"old", "keys">>)
          /\ UNCHANGED cacheVars
      BY <2>3 DEF ViewWrite
    <3>4. QED
      BY <2>1, <3>1, <3>2, <3>3, WriteWellFormed DEF cacheVars
  <2>4. QED
    BY <1>7, <2>2, <2>3
<1>8. CASE InvalidateKeys(r)
  <2>1. /\ todo[r] \in Seq({"keys", "feed", "old", "new"}) /\ todo[r] # <<>>
        /\ UNCHANGED <<rowVars, cacheVars>>
    BY <1>8 DEF InvalidateKeys, Locals, TypeOK
  <2>2. /\ Tail(todo[r]) \in Seq({"keys", "feed", "old", "new"})
        /\ <<"feed">> \o Tail(todo[r]) \in Seq({"keys", "feed", "old", "new"})
        /\ <<"feed">> \o Tail(todo[r]) # <<>>
    BY <2>1
  <2>3. CASE Leave(r)
    BY <2>1, <2>3, LeaveWellFormed DEF TypeOK
  <2>4. CASE \E keys \in Seq({"keys", "feed", "old", "new"}) : keys # <<>> /\ Invalidate(r, keys)
    <3>1. PICK keys \in Seq({"keys", "feed", "old", "new"}) : keys # <<>> /\ Invalidate(r, keys)
      BY <2>4
    <3>2. TypeOK'
      BY <2>1, <3>1 DEF Invalidate, TypeOK, Label, rowVars, cacheVars
    <3>3. QED
      BY <2>1, <3>1, <3>2, GoOnWellFormed DEF Invalidate, TypeOK
  <2>5. QED
    BY <1>8, <2>2, <2>3, <2>4 DEF InvalidateKeys
<1>9. CASE InvalidateKey(r)
  <2>1. /\ todo[r] \in Seq({"keys", "feed", "old", "new"}) /\ todo[r] # <<>>
        /\ UNCHANGED rowVars
    BY <1>9 DEF InvalidateKey, Locals, TypeOK
  <2>2. Tail(todo[r]) \in Seq({"keys", "feed", "old", "new"})
    BY <2>1
  <2>3. cache' \in [Key -> Page \cup {None}] /\ expiring' \subseteq Key
    BY <1>9 DEF InvalidateKey, del, delAll, TypeOK
  <2>4. CASE Tail(todo[r]) = <<>>
    <3>1. Leave(r)
      BY <1>9, <2>4 DEF InvalidateKey
    <3>2. TypeOK'
      BY <2>1, <2>3, <3>1 DEF Leave, TypeOK, Label, rowVars, Page
    <3>3. QED
      BY <2>1, <3>1, <3>2, GoOnWellFormed DEF Leave, TypeOK
  <2>5. CASE Tail(todo[r]) # <<>>
    <3>1. Invalidate(r, Tail(todo[r]))
      BY <1>9, <2>5 DEF InvalidateKey
    <3>2. TypeOK'
      BY <2>1, <2>2, <2>3, <3>1 DEF Invalidate, TypeOK, Label, rowVars
    <3>3. QED
      BY <2>1, <2>5, <3>1, <3>2, GoOnWellFormed DEF Invalidate, TypeOK
  <2>6. QED
    BY <2>4, <2>5
<1>10. QED
  BY <1>1, <1>2, <1>3, <1>4, <1>5, <1>6, <1>7, <1>8, <1>9 DEF Query

\* Every reachable state of NewsCache is well typed, and every handler holds
\* what its next query needs.
LEMMA WellFormedInvariant == Spec => []WellFormed
<1>1. Init => WellFormed
  <2> SUFFICES ASSUME Init PROVE WellFormed
    OBVIOUS
  <2>1. <<>> \in Seq({"keys", "feed", "old", "new"})
    OBVIOUS
  <2>2. QED
    BY <2>1, BoundsAssumption DEF Init, WellFormed, TypeOK, Locals, Label, Page
<1>2. ASSUME WellFormed, [Next]_vars
      PROVE  WellFormed'
  <2>1. ASSUME NEW r \in Request, Arrive(r) \/ Step(r)
        PROVE  WellFormed'
    BY <1>2, <2>1, ArriveWellFormed, QueryWellFormed DEF Step
  <2>2. ASSUME NEW r \in Request, Abort(r)
        PROVE  WellFormed'
    BY <1>2, <2>2, LeaveWellFormed DEF Abort
  <2>3. ASSUME NEW key \in Key, Expire(key)
        PROVE  WellFormed'
    BY <1>2, <2>3 DEF Expire, expire, del, delAll, rowVars, localVars, WellFormed,
       TypeOK, Locals
  <2>4. ASSUME NEW a \in Article, CountBookmark(a)
        PROVE  WellFormed'
    <3>1. counted[a] + 1 \in 0 .. MaxCounted
      BY <1>2, <2>4, BoundsAssumption DEF CountBookmark, WellFormed, TypeOK
    <3>2. counted' \in [Article -> 0 .. MaxCounted]
      BY <1>2, <2>4, <3>1 DEF CountBookmark, WellFormed, TypeOK
    <3>3. QED
      BY <1>2, <2>4, <3>2 DEF CountBookmark, cacheVars, localVars, WellFormed,
         TypeOK, Locals
  <2>5. CASE UNCHANGED vars
    BY <1>2, <2>5 DEF vars, WellFormed, TypeOK, Locals
  <2>6. QED
    BY <1>2, <2>1, <2>2, <2>3, <2>4, <2>5 DEF Next
<1>3. QED
  BY <1>1, <1>2, PTL DEF Spec

\* Type correctness of the rows, the cache and every handler's locals.
THEOREM TypeCorrect == Spec => []TypeOK
BY WellFormedInvariant, PTL DEF WellFormed

-----------------------------------------------------------------------------
(* Slugs, and what Redis shows.                                            *)

\* One write of article a, which leaves it with slug s, without saying which
\* of the four handlers made it.
Written(a, s) ==
    /\ slug' = [slug EXCEPT ![a] = s]
    /\ version' = [version EXCEPT ![a] = @ + 1]
    /\ published' \ {a} = published \ {a}
    /\ deletedAt' \ {a} = deletedAt \ {a}
    /\ shown \subseteq shown'
    /\ Public(a)' => <<a, version'[a], s>> \in shown'

\* What a write does to the row and to the history, whichever handler makes it.
LEMMA WriteIsWritten ==
    ASSUME TypeOK, NEW a \in Article, NEW s \in Slug, NEW p \in BOOLEAN,
           NEW d \in BOOLEAN, Write(a, s, p, d)
    PROVE  Written(a, s)
<1>1. version'[a] = version[a] + 1
  BY DEF Write, TypeOK
<1>2. Public(a)' => p /\ ~d
  BY DEF Write, Public
<1>3. QED
  BY <1>1, <1>2 DEF Write, Written

\* No two articles have the same slug.
SlugsAreUnique ==
    \A a, b \in Article : slug[a] # None /\ slug[a] = slug[b] => a = b

\* A step of a handler leaves the tables alone, or writes one article under a
\* slug that no other article has, and then leaves the cache alone.
LEMMA QueryWritesOnce ==
    ASSUME WellFormed, SlugsAreUnique, NEW r \in Request, Query(r)
    PROVE  \/ UNCHANGED rowVars
           \/ /\ UNCHANGED cacheVars
              /\ pc' = [pc EXCEPT ![r] = "invalidate"]
              /\ UNCHANGED <<old, val>>
              /\ \E a \in Article, s \in Slug : Written(a, s) /\ ~SlugTaken(s, a)
<1> USE DEF WellFormed, Invalidate
<1>1. CASE SlugFind(r) \/ FeedFind(r) \/ Store(r) \/ UpdateConflict(r)
           \/ InvalidateKeys(r) \/ InvalidateKey(r)
  BY <1>1 DEF SlugFind, FeedFind, Store, UpdateConflict, InvalidateKeys, InvalidateKey
<1>2. ASSUME NEW a \in Article, NEW p \in BOOLEAN, CreateWrite(r, a, p),
             ~UNCHANGED rowVars
      PROVE  /\ new[r] \in Slug /\ Written(a, new[r]) /\ ~SlugTaken(new[r], a)
             /\ UNCHANGED cacheVars /\ Invalidate(r, <<"keys">>)
  <2>1. new[r] \in Slug
    BY <1>2 DEF CreateWrite, Locals
  <2>2. /\ ~SlugTaken(new[r], a)
        /\ Write(a, new[r], p, FALSE)
        /\ Invalidate(r, <<"keys">>)
        /\ UNCHANGED cacheVars
    BY <1>2 DEF CreateWrite
  <2>3. QED
    BY <2>1, <2>2, WriteIsWritten
<1>3. ASSUME NEW p \in BOOLEAN, UpdateWrite(r, p), ~UNCHANGED rowVars
      PROVE  \E s \in Slug : \E keys :
                 /\ Written(art[r], s) /\ ~SlugTaken(s, art[r])
                 /\ UNCHANGED cacheVars /\ Invalidate(r, keys)
  <2> DEFINE s == IF new[r] = None THEN slug[art[r]] ELSE new[r]
             keys == IF Renames(r) THEN <<"keys", "old", "new">> ELSE <<"keys", "old">>
  <2>1. art[r] \in Article /\ s \in Slug
    BY <1>3 DEF UpdateWrite, Locals, TypeOK
  <2>2. (art[r] \in deletedAt) \in BOOLEAN
    OBVIOUS
  <2>3. /\ ~SlugTaken(s, art[r])
        /\ Write(art[r], s, p, art[r] \in deletedAt)
        /\ Invalidate(r, keys)
        /\ UNCHANGED cacheVars
    BY <1>3 DEF UpdateWrite
  <2> HIDE DEF s, keys
  <2>4. Written(art[r], s)
    BY <2>1, <2>2, <2>3, WriteIsWritten
  <2>5. QED
    BY <2>1, <2>3, <2>4
<1>4. ASSUME DeleteWrite(r) \/ ViewWrite(r)
      PROVE  \E keys :
                 /\ art[r] \in Article /\ slug[art[r]] \in Slug
                 /\ Written(art[r], slug[art[r]])
                 /\ ~SlugTaken(slug[art[r]], art[r])
                 /\ UNCHANGED cacheVars /\ Invalidate(r, keys)
  <2>1. art[r] \in Article /\ slug[art[r]] \in Slug
    BY <1>4 DEF DeleteWrite, ViewWrite, Locals
  <2>2. ~SlugTaken(slug[art[r]], art[r])
    BY <2>1, KeysAreDistinct DEF SlugsAreUnique, SlugTaken
  <2>3. /\ (art[r] \in published) \in BOOLEAN
        /\ (art[r] \in deletedAt) \in BOOLEAN
        /\ TRUE \in BOOLEAN
    OBVIOUS
  <2>4. CASE DeleteWrite(r)
    <3>1. /\ Write(art[r], slug[art[r]], art[r] \in published, TRUE)
          /\ Invalidate(r, <<"keys", "old">>)
          /\ UNCHANGED cacheVars
      BY <2>4 DEF DeleteWrite
    <3>2. Written(art[r], slug[art[r]])
      BY <2>1, <2>3, <3>1, WriteIsWritten
    <3>3. QED
      BY <2>1, <2>2, <3>1, <3>2
  <2>5. CASE ViewWrite(r)
    <3>1. /\ Write(art[r], slug[art[r]], art[r] \in published, art[r] \in deletedAt)
          /\ Invalidate(r, <<"old", "keys">>)
          /\ UNCHANGED cacheVars
      BY <2>5 DEF ViewWrite
    <3>2. Written(art[r], slug[art[r]])
      BY <2>1, <2>3, <3>1, WriteIsWritten
    <3>3. QED
      BY <2>1, <2>2, <3>1, <3>2
  <2>6. QED
    BY <1>4, <2>4, <2>5
<1>5. art[r] \in Article \/ ~\E p \in BOOLEAN : UpdateWrite(r, p)
  BY DEF UpdateWrite, Locals
<1>6. QED
  BY <1>1, <1>2, <1>3, <1>4, <1>5 DEF Query

\* The unique index on slug does what it is for.
LEMMA SlugsStayUnique == Spec => []SlugsAreUnique
<1>1. Init => SlugsAreUnique
  BY DEF Init, SlugsAreUnique
<1>2. ASSUME WellFormed, SlugsAreUnique, [Next]_vars
      PROVE  SlugsAreUnique'
  <2>1. CASE UNCHANGED slug
    BY <1>2, <2>1 DEF SlugsAreUnique
  <2>2. ASSUME NEW a \in Article, NEW s \in Slug, Written(a, s), ~SlugTaken(s, a)
        PROVE  SlugsAreUnique'
    BY <1>2, <2>2 DEF Written, SlugTaken, SlugsAreUnique, WellFormed, TypeOK
  <2>3. ASSUME NEW r \in Request, Query(r)
        PROVE  SlugsAreUnique'
    BY <1>2, <2>1, <2>2, <2>3, QueryWritesOnce DEF rowVars
  <2>4. ASSUME NEW r \in Request, Arrive(r) \/ Abort(r)
        PROVE  UNCHANGED slug
    BY <2>4 DEF Arrive, Begin, GetBySlug, GetFeed, Read, Create, Edit, Delete,
       IncrementViewCount, Rename, Update, Find, Abort, rowVars
  <2>5. ASSUME NEW key \in Key, Expire(key)
        PROVE  UNCHANGED slug
    BY <2>5 DEF Expire, rowVars
  <2>6. ASSUME NEW a \in Article, CountBookmark(a)
        PROVE  UNCHANGED slug
    BY <2>6 DEF CountBookmark
  <2>7. QED
    BY <1>2, <2>1, <2>3, <2>4, <2>5, <2>6 DEF Next, Step, vars
<1>3. QED
  BY <1>1, <1>2, WellFormedInvariant, PTL DEF Spec

\* The history has every public article, in its version and under its slug.
LEMMA PublicInvariant == Spec => []PublicIsShown
<1>1. Init => PublicIsShown
  BY DEF Init, PublicIsShown, Public
<1>2. ASSUME WellFormed, SlugsAreUnique, PublicIsShown, [Next]_vars
      PROVE  PublicIsShown'
  <2>1. CASE UNCHANGED rowVars
    BY <1>2, <2>1 DEF rowVars, PublicIsShown, Public
  <2>2. ASSUME NEW a \in Article, NEW s \in Slug, Written(a, s)
        PROVE  PublicIsShown'
    <3> SUFFICES ASSUME NEW b \in Article, Public(b)'
                 PROVE  <<b, version'[b], slug'[b]>> \in shown'
      BY DEF PublicIsShown
    <3>1. CASE b = a
      BY <1>2, <2>2, <3>1 DEF Written, WellFormed, TypeOK
    <3>2. CASE b # a
      <4>1. /\ version'[b] = version[b]
            /\ slug'[b] = slug[b]
            /\ b \in published
            /\ b \notin deletedAt
        BY <1>2, <2>2, <3>2 DEF Written, Public, WellFormed, TypeOK
      <4>2. Public(b)
        BY <4>1 DEF Public
      <4>3. QED
        BY <1>2, <2>2, <4>1, <4>2 DEF PublicIsShown, Written
    <3>3. QED
      BY <3>1, <3>2
  <2>3. ASSUME NEW r \in Request, Query(r)
        PROVE  PublicIsShown'
    BY <1>2, <2>1, <2>2, <2>3, QueryWritesOnce
  <2>4. ASSUME NEW r \in Request, Arrive(r) \/ Abort(r)
        PROVE  UNCHANGED rowVars
    BY <2>4 DEF Arrive, Begin, GetBySlug, GetFeed, Read, Create, Edit, Delete,
       IncrementViewCount, Rename, Update, Find, Abort
  <2>5. ASSUME NEW key \in Key, Expire(key)
        PROVE  UNCHANGED rowVars
    BY <2>5 DEF Expire
  <2>6. ASSUME NEW a \in Article, CountBookmark(a)
        PROVE  PublicIsShown'
    BY <1>2, <2>6 DEF CountBookmark, PublicIsShown, Public
  <2>7. QED
    BY <1>2, <2>1, <2>3, <2>4, <2>5, <2>6 DEF Next, Step, vars, rowVars
<1>3. QED
  BY <1>1, <1>2, WellFormedInvariant, SlugsStayUnique, PTL DEF Spec

\* What one step does to the copies: each one afterwards was there before, or
\* was on its way there.
CopiesCome ==
    /\ \A k \in Slug : cache'[k] # None =>
           \/ cache'[k] = cache[k]
           \/ \E r \in Request : pc[r] = "store" /\ old[r] = k /\ cache'[k] = val[r]
    /\ \A r \in Request : pc'[r] = "store" =>
           \/ pc[r] = "store" /\ old'[r] = old[r] /\ val'[r] = val[r]
           \/ old'[r] \notin Slug
           \/ val'[r] = Lookup(old'[r]) /\ UNCHANGED rowVars

\* Every copy that comes into Redis, or into a handler, was read from the rows.
LEMMA StepCopies ==
    ASSUME WellFormed, SlugsAreUnique, [Next]_vars
    PROVE  CopiesCome /\ shown \subseteq shown'
<1> USE DEF WellFormed, TypeOK, Key
<1>1. ASSUME NEW r \in Request, Query(r)
      PROVE  CopiesCome /\ shown \subseteq shown'
  <2>1. CASE SlugFind(r)
    BY <2>1 DEF SlugFind, Leave, CopiesCome, rowVars, cacheVars
  <2>2. CASE FeedFind(r)
    BY <2>2, KeysAreDistinct DEF FeedFind, CopiesCome, rowVars, cacheVars, Locals
  <2>3. CASE Store(r)
    <3>1. \A k \in Slug : cache'[k] = IF k = old[r] THEN val[r] ELSE cache[k]
      BY <2>3 DEF Store, set
    <3>2. \A q \in Request : pc'[q] = "store" =>
              pc[q] = "store" /\ old'[q] = old[q] /\ val'[q] = val[q]
      BY <2>3 DEF Store, Leave
    <3>3. QED
      BY <2>3, <3>1, <3>2 DEF CopiesCome, Store, rowVars
  <2>4. CASE UpdateConflict(r) \/ InvalidateKeys(r)
    BY <2>4 DEF UpdateConflict, InvalidateKeys, Invalidate, Leave, Goto, localVars,
       CopiesCome, rowVars, cacheVars
  <2>5. CASE InvalidateKey(r)
    <3>1. \A k \in Slug : cache'[k] \in {None, cache[k]}
      BY <2>5 DEF InvalidateKey, del, delAll
    <3>2. \A q \in Request : pc'[q] = "store" =>
              pc[q] = "store" /\ old'[q] = old[q] /\ val'[q] = val[q]
      BY <2>5 DEF InvalidateKey, Leave, Invalidate
    <3>3. UNCHANGED rowVars
      BY <2>5 DEF InvalidateKey
    <3>4. QED
      BY <3>1, <3>2, <3>3 DEF CopiesCome, rowVars
  <2>6. CASE \/ \E a \in Article, p \in BOOLEAN : CreateWrite(r, a, p)
             \/ \E p \in BOOLEAN : UpdateWrite(r, p)
             \/ DeleteWrite(r)
             \/ ViewWrite(r)
    <3>1. /\ UNCHANGED cacheVars
          /\ Leave(r) \/ \E keys : Invalidate(r, keys)
      BY <2>6 DEF CreateWrite, UpdateWrite, DeleteWrite, ViewWrite
    <3>2. CopiesCome
      BY <3>1 DEF CopiesCome, cacheVars, Leave, Invalidate
    <3>3. shown \subseteq shown'
      BY <1>1, QueryWritesOnce DEF Written, rowVars
    <3>4. QED
      BY <3>2, <3>3
  <2>7. QED
    BY <1>1, <2>1, <2>2, <2>3, <2>4, <2>5, <2>6 DEF Query
<1>2. ASSUME NEW r \in Request, Arrive(r)
      PROVE  CopiesCome /\ shown \subseteq shown'
  <2>1. UNCHANGED <<rowVars, cacheVars, val>>
    BY <1>2 DEF Arrive, Begin, GetBySlug, GetFeed, Read, Create, Edit, Delete,
       IncrementViewCount, Rename, Update, Find
  <2>2. /\ pc'[r] # "store"
        /\ \A q \in Request \ {r} : pc'[q] = pc[q] /\ old'[q] = old[q]
    BY <1>2 DEF Arrive, Begin, GetBySlug, GetFeed, Read, Create, Edit, Delete,
       IncrementViewCount, Rename, Update, Find
  <2>3. QED
    BY <2>1, <2>2 DEF CopiesCome, rowVars, cacheVars
<1>3. ASSUME NEW r \in Request, Abort(r)
      PROVE  CopiesCome /\ shown \subseteq shown'
  BY <1>3 DEF Abort, Leave, CopiesCome, rowVars, cacheVars
<1>4. ASSUME NEW key \in Key, Expire(key)
      PROVE  CopiesCome /\ shown \subseteq shown'
  <2>1. \A k \in Slug : cache'[k] \in {None, cache[k]}
    BY <1>4 DEF Expire, expire, del, delAll
  <2>2. QED
    BY <1>4, <2>1 DEF Expire, CopiesCome, rowVars, localVars
<1>5. ASSUME NEW a \in Article, CountBookmark(a)
      PROVE  CopiesCome /\ shown \subseteq shown'
  BY <1>5 DEF CountBookmark, CopiesCome, cacheVars, localVars
<1>6. CASE UNCHANGED vars
  BY <1>6 DEF vars, CopiesCome
<1>7. QED
  BY <1>1, <1>2, <1>3, <1>4, <1>5, <1>6 DEF Next, Step

\* Redis holds an article under a slug only in a version that was public under
\* that slug, whatever reads, drafts, renames, deletions and crashes overlap.
THEOREM OnlyShownIsEverCached == Spec => []OnlyShownIsCached
<1>1. Init => CopiesWereShown
  BY DEF Init, CopiesWereShown, Key
<1>2. ASSUME WellFormed, SlugsAreUnique, PublicIsShown, CopiesWereShown, [Next]_vars
      PROVE  CopiesWereShown'
  <2>1. CopiesCome /\ shown \subseteq shown'
    BY <1>2, StepCopies
  <2>2. ASSUME NEW k \in Slug, NEW entry \in Lookup(k)
        PROVE  <<entry[1], entry[2], k>> \in shown
    <3>1. PICK a \in Article : Public(a) /\ slug[a] = k /\ entry = Row(a)
      BY DEF Lookup
    <3>2. entry[1] = a /\ entry[2] = version[a]
      BY <3>1 DEF Row
    <3>3. QED
      BY <1>2, <3>1, <3>2 DEF PublicIsShown
  <2>3. ASSUME NEW k \in Slug, cache'[k] # None, NEW entry \in cache'[k]
        PROVE  <<entry[1], entry[2], k>> \in shown'
    BY <1>2, <2>1, <2>3 DEF CopiesWereShown, CopiesCome, MayKeep
  <2>4. ASSUME NEW r \in Request, pc'[r] = "store", old'[r] \in Slug,
               NEW entry \in val'[r]
        PROVE  <<entry[1], entry[2], old'[r]>> \in shown'
    <3>1. CASE pc[r] = "store" /\ old'[r] = old[r] /\ val'[r] = val[r]
      BY <1>2, <2>1, <2>4, <3>1 DEF CopiesWereShown, MayKeep
    <3>2. CASE val'[r] = Lookup(old'[r])
      BY <2>1, <2>2, <2>4, <3>2
    <3>3. QED
      BY <2>1, <2>4, <3>1, <3>2 DEF CopiesCome
  <2>5. QED
    BY <2>3, <2>4 DEF CopiesWereShown, MayKeep
<1>3. CopiesWereShown => OnlyShownIsCached
  BY DEF CopiesWereShown, MayKeep, OnlyShownIsCached
<1>4. QED
  BY <1>1, <1>2, <1>3, WellFormedInvariant, SlugsStayUnique, PublicInvariant, PTL DEF Spec

-----------------------------------------------------------------------------
(* Copies between requests.                                                *)

\* The key a cache command of r deletes, or looks for.
Target(r, command) ==
    IF command = "old" THEN old[r] ELSE IF command = "new" THEN new[r] ELSE Feed

\* r has still to delete the copy under key.
Pending(r, key) ==
    pc[r] = "invalidate" /\ \E i \in 1 .. Len(todo[r]) : Target(r, todo[r][i]) = key

\* What NewsService wrote of the articles a reader of key would find.
News(key) ==
    {<<a, version[a]>> : a \in {b \in Article : Public(b) /\ key \in {slug[b], Feed}}}

\* The copy under key has it.
AsWritten(key) == cache[key] = None \/ Content(cache[key]) = News(key)

\* An article that is not found is not cached.
NothingEmpty ==
    /\ \A k \in Slug : cache[k] # None => cache[k] # {}
    /\ \A r \in Request : pc[r] = "store" /\ old[r] \in Slug => val[r] # {}

Alone == \A q, r \in Request : pc[q] # "idle" /\ pc[r] # "idle" => q = r

\* What a handler that is alone has read is still so, and what it has made
\* stale it still has to delete.
InStep ==
    serial =>
        /\ Alone
        /\ \A r \in Request :
             /\ pc[r] = "store" => \A key \in Key : old[r] = key => Content(val[r]) = News(key)
             /\ pc[r] \in {"update.conflict", "update.write", "delete.write", "view.write"} =>
                  old[r] = slug[art[r]]
        /\ \A key \in Key : AsWritten(key) \/ \E r \in Request : Pending(r, key)

\* What is stored of an article is never nothing.
LEMMA NothingEmptyInvariant == Spec => []NothingEmpty
<1>1. Init => NothingEmpty
  BY DEF Init, NothingEmpty, Key
<1>2. ASSUME WellFormed, SlugsAreUnique, NothingEmpty, [Next]_vars
      PROVE  NothingEmpty'
  <2>1. \A k \in Slug : cache'[k] # None => cache'[k] # {}
    <3>1. CopiesCome
      BY <1>2, StepCopies
    <3>2. QED
      BY <1>2, <3>1 DEF NothingEmpty, CopiesCome
  <2> USE DEF WellFormed, TypeOK
  <2>2. ASSUME NEW r \in Request, SlugFind(r)
        PROVE  NothingEmpty'
    BY <1>2, <2>1, <2>2 DEF SlugFind, Leave, NothingEmpty
  <2>3. ASSUME NEW r \in Request, FeedFind(r)
        PROVE  NothingEmpty'
    BY <1>2, <2>1, <2>3, KeysAreDistinct DEF FeedFind, Locals, NothingEmpty
  <2>4. CASE \A r \in Request : pc'[r] = "store" =>
                 pc[r] = "store" /\ old'[r] = old[r] /\ val'[r] = val[r]
    BY <1>2, <2>1, <2>4 DEF NothingEmpty
  <2>5. ASSUME NEW r \in Request, Query(r), ~SlugFind(r), ~FeedFind(r)
        PROVE  NothingEmpty'
    <3>1. Leave(r) \/ (\E list : Invalidate(r, list)) \/ Goto(r, "update.write")
      BY <2>5 DEF Query, Store, CreateWrite, UpdateConflict, UpdateWrite,
         DeleteWrite, ViewWrite, InvalidateKeys, InvalidateKey
    <3>2. QED
      BY <1>2, <2>4, <3>1 DEF Invalidate, Leave, Goto, localVars
  <2>6. ASSUME NEW r \in Request, Arrive(r) \/ Abort(r)
        PROVE  NothingEmpty'
    BY <1>2, <2>4, <2>6 DEF Arrive, Begin, GetBySlug, GetFeed, Read, Create, Edit,
       Delete, IncrementViewCount, Rename, Update, Find, Abort, Leave
  <2>7. ASSUME NEW key \in Key, Expire(key)
        PROVE  NothingEmpty'
    BY <2>4, <2>7 DEF Expire, localVars
  <2>8. ASSUME NEW a \in Article, CountBookmark(a)
        PROVE  NothingEmpty'
    BY <2>4, <2>8 DEF CountBookmark, localVars
  <2>9. CASE UNCHANGED vars
    BY <2>4, <2>9 DEF vars
  <2>10. QED
    BY <1>2, <2>2, <2>3, <2>5, <2>6, <2>7, <2>8, <2>9 DEF Next, Step
<1>3. QED
  BY <1>1, <1>2, WellFormedInvariant, SlugsStayUnique, PTL DEF Spec

\* It is what is left of the rows it would find without their bookmarks.
LEMMA ContentOfCurrent ==
    ASSUME NEW key
    PROVE  Content(Current(key)) = News(key)
<1>1. \A b \in Article : Row(b)[1] = b /\ Row(b)[2] = version[b]
  BY DEF Row
<1>2. CASE key = Feed
  <2>1. Current(key) = {Row(a) : a \in {b \in Article : Public(b)}}
    BY <1>2 DEF Current, findFeed
  <2>2. {b \in Article : Public(b) /\ key \in {slug[b], Feed}} = {b \in Article : Public(b)}
    BY <1>2
  <2>3. QED
    BY <1>1, <2>1, <2>2 DEF Content, News
<1>3. CASE key # Feed
  <2>1. Current(key) = {Row(a) : a \in {b \in Article : Public(b) /\ slug[b] = key}}
    BY <1>3 DEF Current, Lookup
  <2>2. {b \in Article : Public(b) /\ key \in {slug[b], Feed}}
          = {b \in Article : Public(b) /\ slug[b] = key}
    BY <1>3
  <2>3. QED
    BY <1>1, <2>1, <2>2 DEF Content, News
<1>4. QED
  BY <1>2, <1>3

\* With what NewsService wrote as it was, so is what a reader would find.
LEMMA NewsFrame ==
    ASSUME UNCHANGED <<slug, published, deletedAt, version>>
    PROVE  \A key : News(key)' = News(key)
BY DEF News, Public

\* A write of an article is news under the slug it had and the one it gets.
LEMMA WriteIsNews ==
    ASSUME TypeOK, NEW a \in Article, NEW s \in Slug, NEW p \in BOOLEAN,
           NEW d \in BOOLEAN, Write(a, s, p, d)
    PROVE  \A k \in Key \ {Feed, slug[a], s} : News(k)' = News(k)
<1> SUFFICES ASSUME NEW k \in Key \ {Feed, slug[a], s}
             PROVE  News(k)' = News(k)
  OBVIOUS
<1>1. \A b \in Article \ {a} : /\ Public(b)' <=> Public(b)
                              /\ slug'[b] = slug[b]
                              /\ version'[b] = version[b]
  BY DEF TypeOK, Write, Public
<1>2. slug'[a] = s
  BY DEF TypeOK, Write
<1>3. \A b \in Article : (Public(b)' /\ k \in {slug'[b], Feed})
                          <=> (Public(b) /\ k \in {slug[b], Feed})
  BY <1>1, <1>2
<1>4. {b \in Article : Public(b)' /\ k \in {slug'[b], Feed}}
        = {b \in Article : Public(b) /\ k \in {slug[b], Feed}}
  BY <1>3
<1>5. \A b \in Article : Public(b) /\ k \in {slug[b], Feed} => version'[b] = version[b]
  BY <1>1, <1>2
<1>6. QED
  BY <1>4, <1>5 DEF News

\* The commands after the first are the tail of the list.
LEMMA Later ==
    ASSUME NEW S, NEW list \in Seq(S), NEW i \in 1 .. Len(list)
    PROVE  \/ i = 1 /\ list[i] = Head(list)
           \/ /\ i - 1 \in 1 .. Len(Tail(list))
              /\ Tail(list)[i - 1] = list[i]
              /\ Tail(list) # <<>>
<1>1. list # <<>> /\ Len(list) \in Nat
  BY EmptySeq
<1>2. /\ Head(list) = list[1]
      /\ Len(Tail(list)) = Len(list) - 1
      /\ \A j \in 1 .. Len(Tail(list)) : Tail(list)[j] = list[j + 1]
  BY <1>1, HeadTailProperties
<1>3. CASE i = 1
  BY <1>2, <1>3
<1>4. CASE i # 1
  <2>1. i - 1 \in 1 .. Len(Tail(list)) /\ (i - 1) + 1 = i
    BY <1>1, <1>2, <1>4
  <2>2. Tail(list)[i - 1] = list[i]
    BY <1>2, <2>1
  <2>3. Len(Tail(list)) # 0
    BY <1>1, <1>2, <1>4
  <2>4. Tail(list) = <<>> => Len(Tail(list)) = Len(<<>>)
    BY Zenon
  <2>5. QED
    BY <2>1, <2>2, <2>3, <2>4, EmptySeq
<1>5. QED
  BY <1>3, <1>4

\* Handlers that wait have nothing pending, so while nobody invalidates every
\* copy is fresh.
LEMMA AllAsWritten ==
    ASSUME InStep, serial, \A r \in Request : pc[r] # "invalidate"
    PROVE  \A key \in Key : AsWritten(key)
BY DEF InStep, Pending

\* A step of r that changes neither a row nor the cache, when all is fresh.
LEMMA QuietInStep ==
    ASSUME NEW r \in Request, UNCHANGED <<rowVars, cache>>,
           \A q \in Request \ {r} : pc'[q] = "idle",
           pc'[r] = "store" => \A key \in Key : old'[r] = key => Content(val'[r]) = News(key),
           pc'[r] \in {"update.conflict", "update.write", "delete.write", "view.write"} =>
              old'[r] = slug[art'[r]],
           \A key \in Key : AsWritten(key)
    PROVE  InStep'
<1>1. \A key \in Key : News(key)' = News(key)
  BY NewsFrame DEF rowVars
<1>2. \A key \in Key : AsWritten(key)'
  BY <1>1 DEF AsWritten
<1>3. Alone'
  BY DEF Alone
<1>4. \A q \in Request :
        /\ pc'[q] = "store" => \A key \in Key : old'[q] = key => Content(val'[q]) = News(key)'
        /\ pc'[q] \in {"update.conflict", "update.write", "delete.write", "view.write"} =>
             old'[q] = slug'[art'[q]]
  BY <1>1 DEF rowVars
<1>5. QED
  BY <1>2, <1>3, <1>4 DEF InStep

\* A handler that writes a row knows the keys it has to delete.
LEMMA WriteInStep ==
    ASSUME TypeOK, NEW r \in Request, NEW a \in Article, NEW s \in Slug,
           NEW p \in BOOLEAN, NEW d \in BOOLEAN, Write(a, s, p, d), UNCHANGED cache,
           NEW list \in Seq({"keys", "feed", "old", "new"}), Invalidate(r, list),
           \A q \in Request \ {r} : pc[q] = "idle",
           \A key \in Key : AsWritten(key),
           \A key \in Key \cap {Feed, slug[a], s} :
              \/ cache[key] = None
              \/ \E i \in 1 .. Len(list) : Target(r, list[i]) = key
    PROVE  InStep'
<1>1. /\ pc' = [pc EXCEPT ![r] = "invalidate"]
      /\ todo' = [todo EXCEPT ![r] = list]
      /\ UNCHANGED <<old, new>>
  BY DEF Invalidate
<1>2. pc'[r] = "invalidate" /\ todo'[r] = list
  BY <1>1 DEF TypeOK
<1>3. ASSUME NEW key \in Key
      PROVE  AsWritten(key)' \/ Pending(r, key)'
  <2>1. CASE key \in {Feed, slug[a], s}
    <3>1. CASE cache[key] = None
      BY <3>1 DEF AsWritten
    <3>2. CASE \E i \in 1 .. Len(list) : Target(r, list[i]) = key
      <4>1. \E i \in 1 .. Len(list) :
              (IF list[i] = "old" THEN old[r] ELSE IF list[i] = "new" THEN new[r] ELSE Feed) = key
        BY <3>2 DEF Target
      <4>2. QED
        BY <1>1, <1>2, <4>1 DEF Pending, Target
    <3>3. QED
      BY <2>1, <3>1, <3>2
  <2>2. CASE key \notin {Feed, slug[a], s}
    <3>1. News(key)' = News(key)
      BY <2>2, WriteIsNews DEF Key
    <3>2. QED
      BY <3>1 DEF AsWritten
  <2>3. QED
    BY <2>1, <2>2
<1>4. \A q \in Request \ {r} : pc'[q] = "idle"
  BY <1>1 DEF TypeOK
<1>5. Alone'
  BY <1>4 DEF Alone
<1>6. QED
  BY <1>2, <1>3, <1>4, <1>5 DEF InStep

\* A query or a command of a handler that is alone.
LEMMA QueryInStep ==
    ASSUME WellFormed, SlugsAreUnique, NothingEmpty, InStep, NEW r \in Request,
           Query(r), UNCHANGED serial
    PROVE  InStep'
<1> SUFFICES ASSUME serial
             PROVE  InStep'
  BY DEF InStep
<1> USE DEF WellFormed
<1>1. pc[r] # "idle" /\ \A q \in Request \ {r} : pc[q] = "idle"
  BY DEF InStep, Alone, Query, SlugFind, FeedFind, Store, CreateWrite,
     UpdateConflict, UpdateWrite, DeleteWrite, ViewWrite, InvalidateKeys, InvalidateKey
<1>2. pc[r] # "invalidate" => \A key \in Key : AsWritten(key)
  BY <1>1, AllAsWritten
<1>3. \A q \in Request \ {r} : pc'[q] = "idle"
  BY <1>1 DEF TypeOK, Query, SlugFind, FeedFind, Store, CreateWrite,
     UpdateConflict, UpdateWrite, DeleteWrite, ViewWrite, InvalidateKeys,
     InvalidateKey, Leave, Goto, Invalidate
<1>4. CASE SlugFind(r)
  <2>1. /\ UNCHANGED <<rowVars, cache>>
        /\ pc'[r] \in {"idle", "store"}
        /\ pc'[r] = "store" => old'[r] = old[r] /\ val'[r] = Lookup(old[r])
        /\ pc[r] # "invalidate" /\ old[r] \in Slug
    BY <1>4 DEF TypeOK, Locals, SlugFind, Leave, cacheVars
  <2>2. pc'[r] = "store" => \A key \in Key : old'[r] = key => Content(val'[r]) = News(key)
    BY <2>1, KeysAreDistinct, ContentOfCurrent DEF Current
  <2>3. QED
    BY <1>2, <1>3, <2>1, <2>2, QuietInStep
<1>5. CASE FeedFind(r)
  <2>1. /\ UNCHANGED <<rowVars, cache>>
        /\ pc'[r] = "store" /\ old'[r] = Feed /\ val'[r] = findFeed
        /\ pc[r] # "invalidate"
    BY <1>5 DEF TypeOK, Locals, FeedFind, cacheVars
  <2>2. \A key \in Key : old'[r] = key => Content(val'[r]) = News(key)
    BY <2>1, ContentOfCurrent DEF Current
  <2>3. QED
    BY <1>2, <1>3, <2>1, <2>2, QuietInStep
<1>6. CASE Store(r)
  <2>1. /\ UNCHANGED rowVars /\ pc'[r] = "idle"
        /\ old[r] \in Key
        /\ cache' = [cache EXCEPT ![old[r]] = val[r]]
        /\ pc[r] # "invalidate"
    BY <1>6 DEF TypeOK, Locals, Store, set, Leave
  <2>2. ASSUME NEW key \in Key
        PROVE  AsWritten(key)'
    <3>1. News(key)' = News(key)
      BY <2>1, NewsFrame DEF rowVars
    <3>2. CASE key = old[r]
      <4>1. Content(val[r]) = News(key)
        BY <1>6, <3>2 DEF InStep, Store
      <4>2. cache'[key] = val[r]
        BY <2>1, <3>2 DEF TypeOK
      <4>3. QED
        BY <3>1, <4>1, <4>2 DEF AsWritten
    <3>3. CASE key # old[r]
      <4>1. cache'[key] = cache[key]
        BY <2>1, <3>3 DEF TypeOK
      <4>2. QED
        BY <1>2, <2>1, <3>1, <4>1 DEF AsWritten
    <3>4. QED
      BY <3>2, <3>3
  <2>3. \A q \in Request : pc'[q] = "idle"
    BY <1>3, <2>1
  <2>4. QED
    BY <2>2, <2>3 DEF InStep, Alone
<1>7. ASSUME NEW a \in Article, NEW p \in BOOLEAN, CreateWrite(r, a, p)
      PROVE  InStep'
  <2>1. new[r] \in Slug /\ pc[r] # "invalidate" /\ slug[a] = None /\ UNCHANGED cache
    BY <1>7 DEF CreateWrite, Locals, cacheVars
  <2>2. CASE SlugTaken(new[r], a)
    <3>1. UNCHANGED <<rowVars, cache>> /\ pc'[r] = "idle"
      BY <1>7, <2>1, <2>2 DEF TypeOK, CreateWrite, Leave
    <3>2. QED
      BY <1>2, <1>3, <2>1, <3>1, QuietInStep
  <2>3. CASE ~SlugTaken(new[r], a)
    <3>1. Write(a, new[r], p, FALSE) /\ Invalidate(r, <<"keys">>)
      BY <1>7, <2>3 DEF CreateWrite
    <3>2. \A b \in Article : slug[b] # new[r]
      BY <2>1, <2>3, KeysAreDistinct DEF SlugTaken
    <3>3. News(new[r]) = {}
      BY <2>1, <3>2, KeysAreDistinct DEF News
    <3>4. cache[new[r]] = None
      <4>1. AsWritten(new[r])
        BY <1>2, <2>1 DEF Key
      <4>2. \A page : Content(page) = {} => page = {}
        BY DEF Content
      <4>3. QED
        BY <2>1, <3>3, <4>1, <4>2 DEF AsWritten, NothingEmpty
    <3>5. /\ <<"keys">> \in Seq({"keys", "feed", "old", "new"})
          /\ 1 \in 1 .. Len(<<"keys">>) /\ <<"keys">>[1] = "keys"
      OBVIOUS
    <3>6. Target(r, <<"keys">>[1]) = Feed
      BY <3>5 DEF Target
    <3>7. \A key \in Key \cap {Feed, slug[a], new[r]} :
            \/ cache[key] = None
            \/ \E i \in 1 .. Len(<<"keys">>) : Target(r, <<"keys">>[i]) = key
      BY <2>1, <3>4, <3>5, <3>6, KeysAreDistinct DEF Key
    <3> HIDE DEF WellFormed
    <3>8. TypeOK
      BY DEF WellFormed
    <3>9. QED
      BY <1>1, <1>2, <2>1, <3>1, <3>5, <3>7, <3>8, WriteInStep
  <2>4. QED
    BY <2>2, <2>3
<1>8. CASE UpdateConflict(r)
  <2>1. /\ UNCHANGED <<rowVars, cache>>
        /\ pc'[r] \in {"idle", "update.write"}
        /\ pc'[r] = "update.write" => old'[r] = old[r] /\ art'[r] = art[r]
        /\ pc[r] = "update.conflict"
    BY <1>8 DEF TypeOK, UpdateConflict, Leave, Goto, localVars, cacheVars
  <2>2. old[r] = slug[art[r]]
    BY <2>1 DEF InStep
  <2>3. QED
    BY <1>2, <1>3, <2>1, <2>2, QuietInStep
<1>9. ASSUME NEW p \in BOOLEAN, UpdateWrite(r, p)
      PROVE  InStep'
  <2> DEFINE s == IF new[r] = None THEN slug[art[r]] ELSE new[r]
             list == IF Renames(r) THEN <<"keys", "old", "new">> ELSE <<"keys", "old">>
  <2>1. art[r] \in Article /\ s \in Slug /\ UNCHANGED cache /\ pc[r] # "invalidate"
    BY <1>9 DEF UpdateWrite, Locals, TypeOK, cacheVars
  <2>2. CASE SlugTaken(s, art[r])
    <3>1. UNCHANGED <<rowVars, cache>> /\ pc'[r] = "idle"
      BY <1>9, <2>1, <2>2 DEF TypeOK, UpdateWrite, Leave
    <3>2. QED
      BY <1>2, <1>3, <2>1, <3>1, QuietInStep
  <2>3. CASE ~SlugTaken(s, art[r])
    <3>1. /\ Write(art[r], s, p, art[r] \in deletedAt)
          /\ Invalidate(r, list)
      BY <1>9, <2>3 DEF UpdateWrite
    <3>2. old[r] = slug[art[r]]
      BY <1>9 DEF UpdateWrite, InStep
    <3>3. /\ list \in Seq({"keys", "feed", "old", "new"})
          /\ 1 \in 1 .. Len(list) /\ list[1] = "keys"
          /\ 2 \in 1 .. Len(list) /\ list[2] = "old"
          /\ Renames(r) => 3 \in 1 .. Len(list) /\ list[3] = "new"
      <4>1. CASE Renames(r)
        BY <4>1
      <4>2. CASE ~Renames(r)
        BY <4>2
      <4>3. QED
        BY <4>1, <4>2
    <3>4. /\ Target(r, list[1]) = Feed
          /\ Target(r, list[2]) = slug[art[r]]
          /\ Renames(r) => Target(r, list[3]) = s
      BY <3>2, <3>3, KeysAreDistinct DEF Target, Renames
    <3>5. ~Renames(r) => s = slug[art[r]]
      BY <3>2 DEF Renames
    <3> HIDE DEF s, list, WellFormed
    <3>6. \A key \in Key \cap {Feed, slug[art[r]], s} :
            \E i \in 1 .. Len(list) : Target(r, list[i]) = key
      BY <3>3, <3>4, <3>5
    <3>7. TypeOK /\ (art[r] \in deletedAt) \in BOOLEAN
      BY DEF WellFormed
    <3>8. QED
      BY <1>1, <1>2, <2>1, <3>1, <3>3, <3>6, <3>7, WriteInStep
  <2>4. QED
    BY <2>2, <2>3
<1>10. CASE DeleteWrite(r) \/ ViewWrite(r)
  <2>1. /\ art[r] \in Article /\ slug[art[r]] \in Slug
        /\ old[r] = slug[art[r]] /\ UNCHANGED cache /\ pc[r] # "invalidate"
    BY <1>10 DEF DeleteWrite, ViewWrite, Locals, InStep, cacheVars
  <2>2. /\ (art[r] \in published) \in BOOLEAN
        /\ (art[r] \in deletedAt) \in BOOLEAN
        /\ (TRUE) \in BOOLEAN
    OBVIOUS
  <2>3. ASSUME NEW list \in Seq({"keys", "feed", "old", "new"}),
               NEW d \in BOOLEAN,
               Write(art[r], slug[art[r]], art[r] \in published, d),
               Invalidate(r, list),
               NEW i \in 1 .. Len(list), list[i] = "keys",
               NEW j \in 1 .. Len(list), list[j] = "old"
        PROVE  InStep'
    <3>1. Target(r, list[i]) = Feed /\ Target(r, list[j]) = slug[art[r]]
      BY <2>1, <2>3 DEF Target
    <3>2. \A key \in Key \cap {Feed, slug[art[r]], slug[art[r]]} :
            \E n \in 1 .. Len(list) : Target(r, list[n]) = key
      BY <3>1
    <3> HIDE DEF WellFormed
    <3>3. TypeOK
      BY DEF WellFormed
    <3>4. QED
      BY <1>1, <1>2, <2>1, <2>2, <2>3, <3>2, <3>3, WriteInStep
  <2>4. CASE DeleteWrite(r)
    <3>1. /\ <<"keys", "old">> \in Seq({"keys", "feed", "old", "new"})
          /\ 1 \in 1 .. Len(<<"keys", "old">>) /\ <<"keys", "old">>[1] = "keys"
          /\ 2 \in 1 .. Len(<<"keys", "old">>) /\ <<"keys", "old">>[2] = "old"
      OBVIOUS
    <3>2. /\ Write(art[r], slug[art[r]], art[r] \in published, TRUE)
          /\ Invalidate(r, <<"keys", "old">>)
      BY <2>4 DEF DeleteWrite
    <3>3. QED
      BY <2>2, <2>3, <3>1, <3>2
  <2>5. CASE ViewWrite(r)
    <3>1. /\ <<"old", "keys">> \in Seq({"keys", "feed", "old", "new"})
          /\ 2 \in 1 .. Len(<<"old", "keys">>) /\ <<"old", "keys">>[2] = "keys"
          /\ 1 \in 1 .. Len(<<"old", "keys">>) /\ <<"old", "keys">>[1] = "old"
      OBVIOUS
    <3>2. /\ Write(art[r], slug[art[r]], art[r] \in published, art[r] \in deletedAt)
          /\ Invalidate(r, <<"old", "keys">>)
      BY <2>5 DEF ViewWrite
    <3>3. QED
      BY <2>2, <2>3, <3>1, <3>2
  <2>6. QED
    BY <1>10, <2>4, <2>5
<1>11. CASE InvalidateKeys(r) \/ InvalidateKey(r)
  <2>1. /\ todo[r] \in Seq({"keys", "feed", "old", "new"}) /\ todo[r] # <<>>
        /\ UNCHANGED rowVars /\ pc[r] = "invalidate" /\ pc'[r] \in {"idle", "invalidate"}
    BY <1>11 DEF InvalidateKeys, InvalidateKey, Locals, TypeOK, Leave, Invalidate
  <2>2. \A key \in Key : News(key)' = News(key)
    BY <2>1, NewsFrame DEF rowVars
  <2>3. \A key \in Key : cache'[key] \in {cache[key], None}
    BY <1>11 DEF InvalidateKeys, InvalidateKey, del, delAll, cacheVars, TypeOK
  <2>4. \A key \in Key : AsWritten(key) => AsWritten(key)'
    BY <2>2, <2>3 DEF AsWritten
  <2>5. \A key \in Key : ~AsWritten(key) =>
          \E i \in 1 .. Len(todo[r]) : Target(r, todo[r][i]) = key
    BY <1>1 DEF InStep, Pending
  <2>6. ASSUME NEW key \in Key
        PROVE  AsWritten(key)' \/ Pending(r, key)'
    <3>1. CASE AsWritten(key)
      BY <2>4, <3>1
    <3>2. CASE ~AsWritten(key)
      <4>1. PICK i \in 1 .. Len(todo[r]) : Target(r, todo[r][i]) = key
        BY <2>5, <3>2
      <4>2. \/ i = 1 /\ todo[r][i] = Head(todo[r])
            \/ /\ i - 1 \in 1 .. Len(Tail(todo[r]))
               /\ Tail(todo[r])[i - 1] = todo[r][i]
               /\ Tail(todo[r]) # <<>>
        BY <2>1, Later
      <4>3. ASSUME Invalidate(r, Tail(todo[r])), i # 1
            PROVE  Pending(r, key)'
        <5>1. /\ pc'[r] = "invalidate" /\ todo'[r] = Tail(todo[r])
              /\ old'[r] = old[r] /\ new'[r] = new[r]
          BY <4>3 DEF Invalidate, TypeOK
        <5>2. i - 1 \in 1 .. Len(todo'[r]) /\ todo'[r][i - 1] = todo[r][i]
          BY <4>2, <4>3, <5>1
        <5>3. QED
          BY <4>1, <5>1, <5>2 DEF Pending, Target
      <4>4. CASE InvalidateKeys(r)
        <5>1. CASE cache[Feed] = None
          <6>1. key # Feed
            BY <3>2, <5>1 DEF AsWritten
          <6>2. i # 1
            BY <4>1, <4>2, <4>4, <6>1 DEF InvalidateKeys, Target
          <6>3. Tail(todo[r]) # <<>>
            BY <4>2, <6>2
          <6>4. QED
            BY <4>3, <4>4, <5>1, <6>2, <6>3 DEF InvalidateKeys
        <5>2. CASE cache[Feed] # None
          <6>1. Invalidate(r, <<"feed">> \o Tail(todo[r]))
            BY <4>4, <5>2 DEF InvalidateKeys
          <6>2. /\ pc'[r] = "invalidate" /\ todo'[r] = <<"feed">> \o Tail(todo[r])
                /\ old'[r] = old[r] /\ new'[r] = new[r]
            BY <6>1 DEF Invalidate, TypeOK
          <6>3. CASE i = 1
            <7>1. key = Feed
              BY <4>1, <4>2, <4>4, <6>3 DEF InvalidateKeys, Target
            <7>2. 1 \in 1 .. Len(todo'[r]) /\ todo'[r][1] = "feed"
              BY <2>1, <6>2
            <7>3. QED
              BY <6>2, <7>1, <7>2 DEF Pending, Target
          <6>4. CASE i # 1
            <7>1. i \in 1 .. Len(todo'[r]) /\ todo'[r][i] = todo[r][i]
              BY <2>1, <4>2, <6>2, <6>4
            <7>2. QED
              BY <4>1, <6>2, <7>1 DEF Pending, Target
          <6>5. QED
            BY <6>3, <6>4
        <5>3. QED
          BY <5>1, <5>2
      <4>5. CASE InvalidateKey(r)
        <5>1. CASE i = 1
          <6>1. Head(todo[r]) \in {"feed", "old", "new"}
            BY <2>1, <4>5 DEF InvalidateKey
          <6>2. del(key)
            BY <4>1, <4>2, <4>5, <5>1, <6>1 DEF InvalidateKey, Target
          <6>3. cache'[key] = None
            BY <6>2 DEF del, delAll, TypeOK
          <6>4. QED
            BY <6>3 DEF AsWritten
        <5>2. CASE i # 1
          <6>1. Tail(todo[r]) # <<>>
            BY <4>2, <5>2
          <6>2. QED
            BY <4>3, <4>5, <5>2, <6>1 DEF InvalidateKey
        <5>3. QED
          BY <5>1, <5>2
      <4>6. QED
        BY <1>11, <4>4, <4>5
    <3>3. QED
      BY <3>1, <3>2
  <2>7. Alone'
    BY <1>3 DEF Alone
  <2>8. QED
    BY <1>3, <2>1, <2>6, <2>7 DEF InStep
<1>12. QED
  BY <1>4, <1>5, <1>6, <1>7, <1>8, <1>9, <1>10, <1>11 DEF Query

\* What a request finds when no other is under way.
LEMMA ArriveInStep ==
    ASSUME WellFormed, InStep, NEW r \in Request, Arrive(r)
    PROVE  InStep'
<1> SUFFICES ASSUME serial'
             PROVE  InStep'
  BY DEF InStep
<1> USE DEF WellFormed, TypeOK
<1>1. serial /\ \A q \in Request : pc[q] = "idle"
  BY DEF Arrive
<1>2. \A key \in Key : AsWritten(key)
  BY <1>1, AllAsWritten
<1>3. /\ UNCHANGED <<rowVars, cache>>
      /\ \A q \in Request \ {r} : pc'[q] = pc[q]
      /\ pc'[r] # "store"
      /\ pc'[r] \in {"update.conflict", "update.write", "delete.write", "view.write"} =>
            old'[r] = slug[art'[r]]
  BY DEF Arrive, Begin, GetBySlug, GetFeed, Read, Create, Edit, Delete,
     IncrementViewCount, Rename, Update, Find, cacheVars
<1>4. QED
  BY <1>1, <1>2, <1>3, QuietInStep

\* While no handlers overlap or crash, each key whose copy is old is the target
\* of a command its writer has still to send.
LEMMA InStepInvariant == Spec => []InStep
<1>1. Init => InStep
  BY DEF Init, InStep, Alone, AsWritten, Key
<1>2. ASSUME WellFormed, SlugsAreUnique, NothingEmpty, InStep, [Next]_vars
      PROVE  InStep'
  <2>1. ASSUME NEW r \in Request, Arrive(r) \/ Step(r)
        PROVE  InStep'
    BY <1>2, <2>1, ArriveInStep, QueryInStep DEF Step
  <2>2. ASSUME NEW r \in Request, Abort(r)
        PROVE  InStep'
    BY <2>2 DEF Abort, InStep
  <2>3. ASSUME NEW key \in Key, Expire(key)
        PROVE  InStep'
    <3>1. /\ UNCHANGED <<rowVars, pc, art, old, new, val, todo, serial>>
          /\ \A k \in Key : cache'[k] \in {cache[k], None}
      BY <1>2, <2>3 DEF Expire, localVars, expire, del, delAll, WellFormed, TypeOK
    <3>2. \A k \in Key : News(k)' = News(k)
      BY <3>1, NewsFrame DEF rowVars
    <3>3. \A k \in Key : AsWritten(k) => AsWritten(k)'
      BY <3>1, <3>2 DEF AsWritten
    <3>4. \A k \in Key : \A r \in Request : Pending(r, k) => Pending(r, k)'
      BY <3>1 DEF Pending, Target
    <3>5. QED
      BY <1>2, <3>1, <3>2, <3>3, <3>4 DEF InStep, Alone, rowVars
  <2>4. CASE UNCHANGED vars
    <3>1. \A k \in Key : News(k)' = News(k)
      BY <2>4, NewsFrame DEF vars, rowVars
    <3>2. \A k \in Key : AsWritten(k)' = AsWritten(k)
      BY <2>4, <3>1 DEF AsWritten, vars
    <3>3. \A k \in Key : \A r \in Request : Pending(r, k) => Pending(r, k)'
      BY <2>4 DEF vars, Pending, Target
    <3>4. QED
      BY <1>2, <2>4, <3>1, <3>2, <3>3 DEF InStep, Alone, vars
  <2>5. ASSUME NEW a \in Article, CountBookmark(a)
        PROVE  InStep'
    <3>1. UNCHANGED <<slug, published, deletedAt, version, cache, pc, art, old, new,
                      val, todo, serial>>
      BY <2>5 DEF CountBookmark, cacheVars, localVars
    <3>2. \A k \in Key : AsWritten(k)' = AsWritten(k) /\ News(k)' = News(k)
      BY <3>1, NewsFrame DEF AsWritten
    <3>3. \A k \in Key : \A r \in Request : Pending(r, k) => Pending(r, k)'
      BY <3>1 DEF Pending, Target
    <3>4. QED
      BY <1>2, <3>1, <3>2, <3>3 DEF InStep, Alone
  <2>6. QED
    BY <1>2, <2>1, <2>2, <2>3, <2>4, <2>5 DEF Next
<1>3. QED
  BY <1>1, <1>2, WellFormedInvariant, SlugsStayUnique, NothingEmptyInvariant,
     PTL DEF Spec

\* As long as no handlers overlap or crash, every write of NewsService leaves
\* every copy it makes old deleted: when all handlers are done, none is left
\* with a command to send.
THEOREM CopiesAreFreshBetweenRequests == Spec => []FreshBetweenRequests
<1>1. InStep => FreshBetweenRequests
  BY ContentOfCurrent DEF InStep, AsWritten, UpToDate, Pending, FreshBetweenRequests
<1>2. QED
  BY <1>1, InStepInvariant, PTL

-----------------------------------------------------------------------------
(* Conflicts.                                                              *)

\* The slug r is about to write belongs to no other article.
SlugIsFree(r) ==
    /\ pc[r] = "create.write" => \A a \in Article : slug[a] # new[r]
    /\ pc[r] = "update.write" =>
         \A a \in Article \ {art[r]} : new[r] # None => slug[a] # new[r]

\* What a handler that is alone has looked up is still so.
LookedUp == serial => \A r \in Request : SlugIsFree(r)

\* Nothing changes for a handler whose locals and rows stay as they are.
LEMMA SlugStaysFree ==
    ASSUME NEW r \in Request, UNCHANGED <<slug, pc[r], art[r], new[r]>>, SlugIsFree(r)
    PROVE  SlugIsFree(r)'
BY DEF SlugIsFree

\* Where a query or command of r takes it, and nobody else.
LEMMA QueryMoves ==
    ASSUME WellFormed, NEW r \in Request, Query(r)
    PROVE  /\ \A q \in Request \ {r} : pc'[q] = pc[q]
           /\ ~UpdateConflict(r) => pc'[r] \in {"idle", "store", "invalidate"}
<1> USE DEF WellFormed, TypeOK
<1>1. CASE Leave(r) \/ \E list : Invalidate(r, list)
  BY <1>1 DEF Leave, Invalidate
<1>2. CASE SlugFind(r) \/ FeedFind(r)
  BY <1>2 DEF SlugFind, FeedFind, Leave
<1>3. CASE UpdateConflict(r)
  BY <1>3 DEF UpdateConflict, Leave, Goto
<1>4. CASE \/ Store(r)
           \/ \E a \in Article, p \in BOOLEAN : CreateWrite(r, a, p)
           \/ DeleteWrite(r)
           \/ ViewWrite(r)
           \/ InvalidateKeys(r)
           \/ InvalidateKey(r)
  BY <1>1, <1>4 DEF Store, CreateWrite, DeleteWrite, ViewWrite, InvalidateKeys, InvalidateKey
<1>5. CASE \E p \in BOOLEAN : UpdateWrite(r, p)
  BY <1>1, <1>5 DEF UpdateWrite
<1>6. QED
  BY <1>2, <1>3, <1>4, <1>5 DEF Query

\* A step of a handler that is alone keeps it.
LEMMA HandlerLookedUp ==
    ASSUME WellFormed, SlugsAreUnique, InStep, LookedUp, NEW r \in Request,
           Arrive(r) \/ Step(r)
    PROVE  LookedUp'
<1> SUFFICES ASSUME serial', NEW q \in Request
             PROVE  SlugIsFree(q)'
  BY DEF LookedUp
<1>1. serial /\ \A p \in Request \ {r} : pc[p] = "idle"
  <2>1. CASE Arrive(r)
    BY <2>1 DEF Arrive
  <2>2. CASE Step(r)
    <3>1. pc[r] # "idle"
      BY <2>2 DEF Step, Query, SlugFind, FeedFind, Store, CreateWrite, UpdateConflict,
         UpdateWrite, DeleteWrite, ViewWrite, InvalidateKeys, InvalidateKey
    <3>2. QED
      BY <2>2, <3>1 DEF Step, InStep, Alone
  <2>3. QED
    BY <2>1, <2>2
<1> USE DEF WellFormed, TypeOK
<1>2. CASE q # r
  <2>1. pc'[q] = pc[q]
    BY <1>2, QueryMoves DEF Arrive, Begin, GetBySlug, GetFeed, Read, Create, Edit,
       Delete, IncrementViewCount, Rename, Update, Find, Step
  <2>2. QED
    BY <1>1, <1>2, <2>1 DEF SlugIsFree
<1>3. CASE q = r /\ Arrive(r)
  <2>1. CASE \E k \in Slug : Create(r, k)
    BY <1>3, <2>1 DEF Create, findBySlugIncludingDeleted, SlugIsFree, rowVars
  <2>2. ASSUME NEW a \in Article, NEW k \in Slug \cup {None}, Update(r, a, k)
        PROVE  SlugIsFree(r)'
    <3>1. /\ pc'[r] = IF k \notin {None, slug[a]} THEN "update.conflict" ELSE "update.write"
          /\ art'[r] = a /\ new'[r] = k /\ slug' = slug /\ slug[a] # None
      BY <2>2 DEF Update, Find, rowVars
    <3>2. pc'[r] = "update.write" => k \in {None, slug[a]}
      BY <3>1
    <3>3. QED
      BY <3>1, <3>2 DEF SlugIsFree, SlugsAreUnique
  <2>3. CASE \/ \E k \in Slug : GetBySlug(r, k)
             \/ GetFeed(r)
             \/ \E a \in Article : Delete(r, a) \/ IncrementViewCount(r, a)
    <3>1. pc'[r] \in {"slug.find", "feed.find", "delete.write", "view.write"}
      BY <2>3 DEF GetBySlug, GetFeed, Read, Delete, IncrementViewCount, Find
    <3>2. QED
      BY <1>3, <3>1 DEF SlugIsFree
  <2>4. QED
    BY <1>3, <2>1, <2>2, <2>3 DEF Arrive, Begin, Edit, Rename
<1>4. CASE q = r /\ Step(r)
  <2>1. CASE UpdateConflict(r)
    BY <1>4, <2>1 DEF UpdateConflict, findBySlugIncludingDeleted, Goto, localVars,
       Leave, SlugIsFree, rowVars
  <2>2. CASE ~UpdateConflict(r)
    <3>1. pc'[r] \in {"idle", "store", "invalidate"}
      BY <1>4, <2>2, QueryMoves DEF Step
    <3>2. QED
      BY <1>4, <3>1 DEF SlugIsFree
  <2>3. QED
    BY <2>1, <2>2
<1>5. QED
  BY <1>2, <1>3, <1>4

\* What was looked up stays so while no handlers overlap or crash.
LEMMA LookedUpInvariant == Spec => []LookedUp
<1>1. Init => LookedUp
  BY DEF Init, LookedUp, SlugIsFree
<1>2. ASSUME WellFormed, SlugsAreUnique, InStep, LookedUp, [Next]_vars
      PROVE  LookedUp'
  <2>1. ASSUME NEW r \in Request, Abort(r)
        PROVE  LookedUp'
    BY <2>1 DEF Abort, LookedUp
  <2>2. CASE \/ \E key \in Key : Expire(key)
             \/ \E a \in Article : CountBookmark(a)
             \/ UNCHANGED vars
    <3>1. UNCHANGED <<slug, pc, art, new, serial>>
      BY <2>2 DEF Expire, CountBookmark, rowVars, localVars, vars
    <3>2. QED
      BY <1>2, <3>1 DEF LookedUp, SlugIsFree
  <2>3. QED
    BY <1>2, <2>1, <2>2, HandlerLookedUp DEF Next
<1>3. QED
  BY <1>1, <1>2, WellFormedInvariant, SlugsStayUnique, InStepInvariant, PTL DEF Spec

\* As long as no handlers overlap or crash, the look-up of create and update
\* finds every slug in use, soft-deleted articles included: the unique index
\* never throws.
THEOREM IndexRefusesOnlyRaces == Spec => ConflictsAreFoundFirst
<1> DEFINE Found == \A r \in Request :
              serial /\ serial' /\ pc[r] \in {"create.write", "update.write"} =>
                  pc'[r] \in {pc[r], "invalidate"}
<1>1. ASSUME WellFormed, SlugsAreUnique, InStep, LookedUp, [Next]_vars
      PROVE  Found
  <2> SUFFICES ASSUME NEW r \in Request, serial, serial',
                      pc[r] \in {"create.write", "update.write"}
               PROVE  pc'[r] \in {pc[r], "invalidate"}
    OBVIOUS
  <2>1. SlugIsFree(r)
    BY <1>1 DEF LookedUp
  <2> USE DEF WellFormed, TypeOK
  <2>2. ASSUME NEW a \in Article, NEW p \in BOOLEAN, CreateWrite(r, a, p)
        PROVE  pc'[r] = "invalidate"
    <3>1. ~SlugTaken(new[r], a)
      BY <2>1, <2>2 DEF CreateWrite, SlugIsFree, SlugTaken
    <3>2. QED
      BY <1>1, <2>2, <3>1 DEF CreateWrite, Invalidate
  <2>3. ASSUME NEW p \in BOOLEAN, UpdateWrite(r, p)
        PROVE  pc'[r] = "invalidate"
    <3>1. pc[r] = "update.write" /\ art[r] \in Article /\ slug[art[r]] # None
      BY <1>1, <2>3, KeysAreDistinct DEF UpdateWrite, Locals
    <3>2. CASE new[r] = None
      <4>1. ~SlugTaken(slug[art[r]], art[r])
        BY <1>1, <3>1 DEF SlugsAreUnique, SlugTaken
      <4>2. QED
        BY <1>1, <2>3, <3>2, <4>1 DEF UpdateWrite, Invalidate
    <3>3. CASE new[r] # None
      <4>1. ~SlugTaken(new[r], art[r])
        BY <2>1, <3>1, <3>3 DEF SlugIsFree, SlugTaken
      <4>2. QED
        BY <1>1, <2>3, <3>3, <4>1 DEF UpdateWrite, Invalidate
    <3>4. QED
      BY <3>2, <3>3
  <2>4. ASSUME Query(r)
        PROVE  pc'[r] = "invalidate"
    BY <2>2, <2>3, <2>4 DEF Query, SlugFind, FeedFind, Store, UpdateConflict,
       DeleteWrite, ViewWrite, InvalidateKeys, InvalidateKey
  <2>5. ASSUME NEW q \in Request, Arrive(q)
        PROVE  pc'[r] = pc[r]
    BY <2>5 DEF Arrive
  <2>6. ASSUME NEW q \in Request \ {r}, Query(q)
        PROVE  pc'[r] = pc[r]
    BY <1>1, <2>6, QueryMoves
  <2>7. ASSUME NEW q \in Request, Abort(q)
        PROVE  FALSE
    BY <2>7 DEF Abort
  <2>8. CASE \/ \E key \in Key : Expire(key)
             \/ \E a \in Article : CountBookmark(a)
             \/ UNCHANGED vars
    BY <2>8 DEF Expire, CountBookmark, vars
  <2>9. QED
    BY <1>1, <2>4, <2>5, <2>6, <2>7, <2>8 DEF Next, Step
<1>2. WellFormed /\ SlugsAreUnique /\ InStep /\ LookedUp /\ [Next]_vars => [Found]_vars
  BY <1>1
<1>3. QED
  BY <1>2, WellFormedInvariant, SlugsStayUnique, InStepInvariant, LookedUpInvariant,
     PTL DEF Spec, ConflictsAreFoundFirst
=============================================================================
