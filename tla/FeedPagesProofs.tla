---------------------------- MODULE FeedPagesProofs ----------------------------
(***************************************************************************)
(* Proofs about the news feed of Services, for any number of articles and  *)
(* any page sizes: the order of the feed, and what a client misses or sees *)
(* twice that pages through it.                                            *)
(***************************************************************************)
EXTENDS Services, FiniteSetTheorems, TLAPS

-----------------------------------------------------------------------------
(* Rows and pages.                                                         *)

\* The instance's copies of the operators on finite sets are the library's.
LEMMA PageSets ==
    ASSUME NEW S
    PROVE  Pages!Cardinality(S) = Cardinality(S)
BY DEF Pages!Cardinality, Cardinality

\* n articles need as many pages as hold them, and no more than n.
LEMMA EnoughPages ==
    ASSUME NEW n \in Nat, NEW l \in Nat \ {0}
    PROVE  LET q == (n + l - 1) \div l
           IN  q \in 0 .. n /\ \A p \in Nat : p >= q => n <= p * l
<1> DEFINE q == (n + l - 1) \div l
<1>1. q \in Nat /\ q * l <= n + l - 1 /\ n + l - 1 < q * l + l
  OBVIOUS
<1> HIDE DEF q
<1>2. q <= n
  <2>1. SUFFICES ASSUME q >= n + 1
                 PROVE  FALSE
    BY <1>1
  <2>2. q * l >= (n + 1) * l
    BY <1>1, <2>1
  <2>3. (n + 1) * l = n * l + l /\ n * l >= n
    OBVIOUS
  <2>4. QED
    BY <1>1, <2>2, <2>3
<1>3. ASSUME NEW p \in Nat, p >= q
      PROVE  n <= p * l
  <2>1. p * l >= q * l
    BY <1>1, <1>3
  <2>2. QED
    BY <1>1, <2>1
<1>4. QED
  BY <1>1, <1>2, <1>3 DEF q

\* The pages are numbered from 1, and each begins where the last one ends.
LEMMA NextPage ==
    ASSUME NEW p \in Nat \ {0}, limit \in Nat \ {0}
    PROVE  /\ Pages!skip(p) \in Nat /\ Pages!skip(1) = 0
           /\ Pages!skip(p + 1) = Pages!skip(p) + limit
           /\ Pages!skip(p + 1) = p * limit
BY DEF Pages!skip

\* The public articles are finitely many, and their dates are dates.
Published ==
    /\ Pages!Public \subseteq Pages!Article
    /\ \A a \in Pages!Article : publishedAt[a] \in Nat \cup {None}

\* Any set of articles is finite, and has at most MaxArticles of them.
LEMMA PublicFinite ==
    /\ IsFiniteSet(Pages!Article) /\ Cardinality(Pages!Article) = MaxArticles
    /\ \A S \in SUBSET Pages!Article :
          IsFiniteSet(S) /\ Cardinality(S) \in 0 .. MaxArticles
<1>1. IsFiniteSet(Pages!Article) /\ Cardinality(Pages!Article) = MaxArticles
  BY FS_Interval, PageAssumptions DEF Pages!Assumptions, Pages!Article
<1>2. QED
  BY <1>1, FS_Subset, FS_CardinalityType

\* The articles before a in the feed.
Before(a) == {b \in Pages!Public : Pages!newestFirst(b, a)}

\* The row of an article is a number: how many public articles come before it.
LEMMA RowsCounted ==
    ASSUME NEW a
    PROVE  /\ Pages!row(a) = Cardinality(Before(a))
           /\ Pages!row(a) \in Nat
           /\ IsFiniteSet(Before(a)) /\ IsFiniteSet(Pages!Public)
<1>1. Pages!Public \subseteq Pages!Article /\ Before(a) \subseteq Pages!Article
  BY DEF Before, Pages!Public
<1>2. QED
  BY <1>1, PublicFinite, PageSets DEF Before, Pages!row

\* The order of the feed is a strict order: an article's row is beyond those of
\* all that come before it, and within the feed.
LEMMA RowsInOrder ==
    ASSUME Published, NEW a \in Pages!Public
    PROVE  /\ Pages!row(a) < Cardinality(Pages!Public)
           /\ \A b \in Pages!Public : Pages!newestFirst(a, b) => Pages!row(a) < Pages!row(b)
<1> USE PageAssumptions DEF Pages!Assumptions, Pages!newestFirst, Published,
        Pages!Article
<1>1. ASSUME NEW T, IsFiniteSet(T), Before(a) \subseteq T, a \in T
      PROVE  Pages!row(a) < Cardinality(T)
  <2>1. Before(a) # T
    BY <1>1 DEF Before
  <2>2. /\ Cardinality(Before(a)) <= Cardinality(T)
        /\ Cardinality(Before(a)) # Cardinality(T)
    BY <1>1, <2>1, FS_Subset
  <2>3. Cardinality(Before(a)) \in Nat /\ Cardinality(T) \in Nat
    BY <1>1, FS_CardinalityType, RowsCounted
  <2>4. QED
    BY <2>2, <2>3, RowsCounted
<1>2. Pages!row(a) < Cardinality(Pages!Public)
  BY <1>1, RowsCounted DEF Before
<1>3. ASSUME NEW b \in Pages!Public, Pages!newestFirst(a, b)
      PROVE  Pages!row(a) < Pages!row(b)
  <2>1. Before(a) \subseteq Before(b) /\ a \in Before(b)
    <3>1. ASSUME NEW c \in Pages!Public, Pages!newestFirst(c, a)
          PROVE  Pages!newestFirst(c, b)
      <4>1. /\ publishedAt[a] \in Nat \cup {None} /\ a \in Nat
            /\ publishedAt[b] \in Nat \cup {None} /\ b \in Nat
            /\ publishedAt[c] \in Nat \cup {None} /\ c \in Nat
        OBVIOUS
      <4>2. QED
        BY <1>3, <3>1, <4>1
    <3>2. QED
      BY <1>3, <3>1 DEF Before
  <2>2. QED
    BY <1>1, <2>1, RowsCounted
<1>4. QED
  BY <1>2, <1>3

-----------------------------------------------------------------------------
(* The order of the feed.                                                  *)

\* What the feed's order rests on: an article has the date at which a reader
\* would say it was published, but for drafts that never had one and for
\* those that an update left without one.
Dated ==
    /\ status \in [Pages!Article -> {"absent", "DRAFT", "PUBLISHED", "deleted"}]
    /\ publishedAt \in [Pages!Article -> Nat \cup {None}]
    /\ since \in [Pages!Article -> Nat \cup {None}]
    /\ floated \subseteq Pages!Article
    /\ \A a \in Pages!Article :
          /\ status[a] = "absent" => a \notin floated
          /\ a \in floated => publishedAt[a] = None
          /\ Pages!Exists(a) => since[a] \in Nat
          /\ Pages!Exists(a) /\ a \notin floated => publishedAt[a] \in {None, since[a]}
          /\ status[a] = "PUBLISHED" /\ a \notin floated => publishedAt[a] # None

\* A writer leaves one article in this state.
LEMMA WriteDated ==
    ASSUME Dated, NEW a \in Pages!Article, NEW s \in {"DRAFT", "PUBLISHED", "deleted"},
           NEW date \in Nat \cup {None}, NEW publication \in Nat \cup {None},
           NEW isNew \in BOOLEAN, Pages!Write(a, s, date, publication, isNew),
           floated' \subseteq Pages!Article,
           \A b \in Pages!Article \ {a} : b \in floated' <=> b \in floated,
           a \in floated' => date = None,
           s # "deleted" => publication \in Nat,
           s # "deleted" /\ a \notin floated' => date \in {None, publication},
           s = "PUBLISHED" /\ a \notin floated' => date # None
    PROVE  Dated'
<1>1. /\ status' = [status EXCEPT ![a] = s]
      /\ publishedAt' = [publishedAt EXCEPT ![a] = date]
      /\ since' = [since EXCEPT ![a] = publication]
  BY DEF Pages!Write
<1>2. ASSUME NEW b \in Pages!Article
      PROVE  /\ status'[b] = IF b = a THEN s ELSE status[b]
             /\ publishedAt'[b] = IF b = a THEN date ELSE publishedAt[b]
             /\ since'[b] = IF b = a THEN publication ELSE since[b]
  BY <1>1 DEF Dated
<1>3. /\ status' \in [Pages!Article -> {"absent", "DRAFT", "PUBLISHED", "deleted"}]
      /\ publishedAt' \in [Pages!Article -> Nat \cup {None}]
      /\ since' \in [Pages!Article -> Nat \cup {None}]
  BY <1>1 DEF Dated
<1>4. ASSUME NEW b \in Pages!Article
      PROVE  /\ status'[b] = "absent" => b \notin floated'
             /\ b \in floated' => publishedAt'[b] = None
             /\ Pages!Exists(b)' => since'[b] \in Nat
             /\ Pages!Exists(b)' /\ b \notin floated' => publishedAt'[b] \in {None, since'[b]}
             /\ status'[b] = "PUBLISHED" /\ b \notin floated' => publishedAt'[b] # None
  BY <1>2, <1>4 DEF Dated, Pages!Exists
<1>5. QED
  BY <1>3, <1>4 DEF Dated

\* Every step keeps the dates.
LEMMA DatedStep ==
    ASSUME Dated, Pages!Next
    PROVE  Dated'
<1> USE PageAssumptions DEF Pages!Assumptions
<1>1. CASE UNCHANGED Pages!rowVars
  BY <1>1 DEF Pages!rowVars, Dated, Pages!Exists
<1>2. ASSUME NEW a \in Pages!Article, NEW isPublished \in BOOLEAN,
             NEW given \in Dates \cup {None}, Pages!Create(a, isPublished, given)
      PROVE  Dated'
  <2> DEFINE date == Pages!dateOf(isPublished, given, a)
             s == IF isPublished THEN "PUBLISHED" ELSE "DRAFT"
             publication == IF given = None THEN a ELSE given
  <2>1. /\ Pages!Write(a, s, date, publication, TRUE)
        /\ floated' = floated /\ a \notin floated
    BY <1>2 DEF Pages!Create, Dated
  <2>2. /\ date \in Nat \cup {None} /\ publication \in Nat
        /\ date \in {None, publication}
        /\ s \in {"DRAFT", "PUBLISHED"}
        /\ s = "PUBLISHED" => date # None
    BY DEF Pages!dateOf, Pages!Article
  <2> HIDE DEF date, s, publication
  <2>3. /\ floated' \subseteq Pages!Article
        /\ \A b \in Pages!Article \ {a} : b \in floated' <=> b \in floated
        /\ a \notin floated'
    BY <2>1 DEF Dated
  <2>4. /\ s \in {"DRAFT", "PUBLISHED", "deleted"}
        /\ publication \in Nat \cup {None}
    BY <2>2
  <2>5. QED
    BY <2>1, <2>2, <2>3, <2>4, WriteDated
<1>3. ASSUME NEW a \in Pages!Article, NEW isPublished \in BOOLEAN,
             NEW date \in Dates \cup {None, publishedAt[a]},
             Pages!Update(a, isPublished, date)
      PROVE  Dated'
  <2> DEFINE s == IF isPublished THEN "PUBLISHED" ELSE "DRAFT"
             publication == IF date \in {None, publishedAt[a]} THEN since[a] ELSE date
  <2>1. /\ Pages!Write(a, s, date, publication, FALSE)
        /\ floated' = IF date = None THEN floated \cup {a} ELSE floated \ {a}
        /\ Pages!Exists(a)
    BY <1>3 DEF Pages!Update
  <2>2. /\ date \in Nat \cup {None} /\ publication \in Nat
        /\ date \in {None, publication}
        /\ s \in {"DRAFT", "PUBLISHED"}
    BY <2>1 DEF Dated
  <2> HIDE DEF s, publication
  <2>3. /\ floated' \subseteq Pages!Article
        /\ \A b \in Pages!Article \ {a} : b \in floated' <=> b \in floated
        /\ a \in floated' <=> date = None
    BY <2>1 DEF Dated
  <2>4. /\ s \in {"DRAFT", "PUBLISHED", "deleted"}
        /\ publication \in Nat \cup {None}
    BY <2>2
  <2>5. QED
    BY <2>1, <2>2, <2>3, <2>4, WriteDated
<1>4. ASSUME NEW a \in Pages!Article, Pages!Delete(a)
      PROVE  Dated'
  BY <1>4, WriteDated DEF Pages!Delete, Dated
<1>5. QED
  BY <1>1, <1>2, <1>3, <1>4 DEF Pages!Next, Pages!Begin, Pages!GetFeed, Pages!FindItems,
     Pages!Count, Pages!Store, Pages!Keys, Pages!Del, Pages!Abort, Pages!Expire

DatedInv == subject = "pages" => Dated

\* Articles have the dates that their order is taken from.
THEOREM DatedInvariant == Spec => []DatedInv
<1> USE DEF DatedInv
<1>1. Init => DatedInv
  BY DEF Init, Pages!Init, Dated, Pages!Exists
<1>2. DatedInv /\ [Next]_vars => DatedInv'
  <2> SUFFICES ASSUME DatedInv, [Next]_vars, subject' = "pages"
               PROVE  Dated'
    OBVIOUS
  <2>1. CASE About("pages") /\ Pages!Next
    BY <2>1, DatedStep DEF About
  <2>2. CASE UNCHANGED <<subject, pageVars>>
    BY <2>2 DEF pageVars, Dated, Pages!Exists
  <2>3. QED
    BY <2>1, <2>2 DEF Next, About, vars
<1>3. QED
  BY <1>1, <1>2, PTL DEF Spec

\* The feed is in the order in which its articles were published, but for
\* those that an update left without a date, which come first: Postgres sorts
\* nulls before everything in a descending order.
THEOREM FeedIsInOrder == Spec => []InOrderOfPublication
<1>1. DatedInv => InOrderOfPublication
  <2> SUFFICES ASSUME Dated, NEW a \in Pages!Public, NEW b \in Pages!Public \ floated,
                      a \in floated \/ since[a] > since[b]
               PROVE  Pages!row(a) < Pages!row(b)
    BY DEF DatedInv, InOrderOfPublication, Pages!InOrderOfPublication
  <2>1. Published
    BY DEF Dated, Published, Pages!Public
  <2>2. Pages!newestFirst(a, b)
    BY PageAssumptions DEF Pages!Assumptions, Dated, Pages!Public, Pages!Exists,
       Pages!newestFirst
  <2>3. QED
    BY <2>1, <2>2, RowsInOrder
<1>2. QED
  BY <1>1, DatedInvariant, PTL

-----------------------------------------------------------------------------
(* Types.                                                                  *)

\* The types of the feed; a handler is at work for a page.
Typed ==
    /\ Pages!TypeOK
    /\ pagePc # "idle" => page # None

\* An answer to a request for a page has the type of a listing.
LEMMA ListingTyped ==
    ASSUME limit \in Limits, NEW is \in SUBSET Pages!Article, NEW n \in 0 .. MaxArticles
    PROVE  Pages!listing(is, n) \in Pages!Listing
<1> USE PageAssumptions DEF Pages!Assumptions
<1>1. limit \in Nat \ {0} /\ n \in Nat
  OBVIOUS
<1>2. Pages!totalPages(n) \in 0 .. n
  BY <1>1, EnoughPages DEF Pages!totalPages
<1>3. Pages!totalPages(n) \in 0 .. MaxArticles
  BY <1>2
<1>4. QED
  BY <1>3 DEF Pages!listing, Pages!Listing

\* A client gets a listing.
LEMMA ReceiveTyped ==
    ASSUME Typed, page # None, NEW l \in Pages!Listing, Pages!Receive(l)
    PROVE  /\ page' \in Pages!Page \cup {None}
           /\ seen' \subseteq Pages!Article
           /\ repeated' \in BOOLEAN
<1>1. l.items \subseteq Pages!Article /\ l.totalPages \in 0 .. MaxArticles
  BY DEF Pages!Listing
<1>2. repeated' \in BOOLEAN
  BY DEF Pages!Receive
<1>3. seen' \subseteq Pages!Article
  BY <1>1 DEF Pages!Receive, Typed, Pages!TypeOK
<1>4. page' \in Pages!Page \cup {None}
  <2>1. page \in Pages!Page
    BY DEF Typed, Pages!TypeOK
  <2>2. page < l.totalPages => page + 1 \in Pages!Page
    BY <1>1, <2>1, PageAssumptions DEF Pages!Page, Pages!Assumptions
  <2>3. QED
    BY <2>2 DEF Pages!Receive
<1>5. QED
  BY <1>2, <1>3, <1>4

\* The steps of the client and of its handler keep the types.
LEMMA ClientTyped ==
    ASSUME Typed,
           Pages!Begin \/ Pages!GetFeed \/ Pages!FindItems \/ Pages!Count \/ Pages!Store
    PROVE  Typed'
<1> USE PageAssumptions DEF Pages!Assumptions, Typed, Pages!TypeOK, Pages!rowVars,
        Pages!cacheVars, Pages!writerVars, Pages!queryVars, Pages!walkVars
<1>1. CASE Pages!Begin
  <2>1. quiet' \in BOOLEAN
    BY <1>1 DEF Pages!Begin
  <2>2. Pages!Public \subseteq Pages!Article /\ 1 \in Pages!Page
    BY DEF Pages!Public, Pages!Page
  <2>3. QED
    BY <1>1, <2>1, <2>2 DEF Pages!Begin
<1>2. CASE Pages!GetFeed
  <2>1. pageSerial' \in BOOLEAN
    BY <1>2 DEF Pages!GetFeed
  <2>2. CASE pageCache[page] = None
    BY <1>2, <2>1, <2>2 DEF Pages!GetFeed
  <2>3. CASE pageCache[page] # None
    <3>1. pageCache[page] \in Pages!Listing /\ page # None
      BY <1>2, <2>3 DEF Pages!GetFeed
    <3>2. Pages!Receive(pageCache[page])
      BY <1>2, <2>3 DEF Pages!GetFeed
    <3>3. /\ page' \in Pages!Page \cup {None} /\ seen' \subseteq Pages!Article
          /\ repeated' \in BOOLEAN
      BY <3>1, <3>2, ReceiveTyped
    <3>4. QED
      BY <1>2, <2>1, <2>3, <3>3 DEF Pages!GetFeed
  <2>4. QED
    BY <2>2, <2>3
<1>3. CASE Pages!FindItems
  <2>1. Pages!findItems(page) \subseteq Pages!Article
    BY DEF Pages!findItems, Pages!Public
  <2>2. QED
    BY <1>3, <2>1 DEF Pages!FindItems
<1>4. CASE Pages!Count
  <2>1. Pages!Cardinality(Pages!Public) \in 0 .. MaxArticles
    BY PublicFinite, PageSets DEF Pages!Public
  <2>2. QED
    BY <1>4, <2>1 DEF Pages!Count
<1>5. CASE Pages!Store
  <2> DEFINE l == Pages!listing(items, total)
  <2>1. l \in Pages!Listing
    BY ListingTyped
  <2>2. /\ pageCache' = [pageCache EXCEPT ![page] = l]
        /\ pageTtl' \in {pageTtl \cup {page}, pageTtl \ {page}}
        /\ Pages!Receive(l) /\ page # None
    BY <1>5 DEF Pages!Store, Pages!set
  <2> HIDE DEF l
  <2>3. /\ page' \in Pages!Page \cup {None} /\ seen' \subseteq Pages!Article
        /\ repeated' \in BOOLEAN
    BY <2>1, <2>2, ReceiveTyped
  <2>4. pageCache' \in [Pages!Page -> Pages!Listing \cup {None}]
    BY <2>1, <2>2
  <2>5. pageTtl' \subseteq Pages!Page
    BY <2>2
  <2>6. QED
    BY <1>5, <2>3, <2>4, <2>5 DEF Pages!Store
<1>6. QED
  BY <1>1, <1>2, <1>3, <1>4, <1>5

\* Some article is written.
Written ==
    \/ \E a \in Pages!Article, isPublished \in BOOLEAN :
        \/ \E given \in Dates \cup {None} : Pages!Create(a, isPublished, given)
        \/ \E date \in Dates \cup {None, publishedAt[a]} : Pages!Update(a, isPublished, date)
    \/ \E a \in Pages!Article : Pages!Delete(a)

\* What all writes have in common.
LEMMA WrittenFrame ==
    ASSUME Written
    PROVE  /\ writer = "idle" /\ writer' = "keys"
           /\ writes < MaxArticleWrites /\ writes' = writes + 1
           /\ quiet' = FALSE
           /\ growing' \in BOOLEAN /\ pageSerial' \in BOOLEAN
           /\ pageSerial' => pageSerial /\ pagePc = "idle"
           /\ UNCHANGED <<Pages!cacheVars, doomed, Pages!queryVars, Pages!walkVars>>
<1>1. PICK a, s, date, publication, isNew :
          Pages!Write(a, s, date, publication, isNew)
  BY DEF Written, Pages!Create, Pages!Update, Pages!Delete
<1>2. QED
  BY <1>1 DEF Pages!Write

\* The steps of the writer, crashes and expiry keep the types.
LEMMA WriterTyped ==
    ASSUME Typed, Dated',
           \/ Written \/ Pages!Keys \/ Pages!Del \/ Pages!Abort
           \/ \E p \in Pages!Page : Pages!Expire(p)
    PROVE  Typed'
<1> USE PageAssumptions DEF Pages!Assumptions, Typed, Pages!TypeOK, Pages!rowVars,
        Pages!cacheVars, Pages!writerVars, Pages!queryVars, Pages!walkVars
<1>1. CASE Written
  BY <1>1, WrittenFrame DEF Dated
<1>2. CASE Pages!Keys \/ Pages!Abort
  BY <1>2 DEF Pages!Keys, Pages!Abort
<1>3. ASSUME NEW keys, Pages!delAll(keys)
      PROVE  pageCache' \in [Pages!Page -> Pages!Listing \cup {None}] /\ pageTtl' \subseteq Pages!Page
  BY <1>3 DEF Pages!delAll
<1>4. CASE Pages!Del
  BY <1>3, <1>4 DEF Pages!Del
<1>5. CASE \E p \in Pages!Page : Pages!Expire(p)
  <2>1. /\ \E keys : Pages!delAll(keys)
        /\ UNCHANGED <<Pages!rowVars, Pages!writerVars, Pages!queryVars, Pages!walkVars,
                       quiet, growing, pageSerial>>
    BY <1>5 DEF Pages!Expire, Pages!expire, Pages!del
  <2>2. QED
    BY <1>3, <2>1
<1>6. QED
  BY <1>1, <1>2, <1>4, <1>5

\* Each step is the client's, the writer's, or an expiry.
LEMMA PageSteps ==
    ASSUME Pages!Next
    PROVE  \/ Pages!Begin \/ Pages!GetFeed \/ Pages!FindItems \/ Pages!Count \/ Pages!Store
           \/ Written \/ Pages!Keys \/ Pages!Del \/ Pages!Abort
           \/ \E p \in Pages!Page : Pages!Expire(p)
BY DEF Pages!Next, Written

TypedInv == subject = "pages" => Typed

\* The feed's variables keep their types.
THEOREM TypedInvariant == Spec => []TypedInv
<1> USE DEF TypedInv
<1>1. Init => TypedInv
  <2> SUFFICES ASSUME Pages!Init
               PROVE  Typed
    BY DEF Init
  <2>1. {repeated, quiet, growing, pageSerial} \subseteq BOOLEAN
    BY DEF Pages!Init
  <2>2. /\ status \in [Pages!Article -> {"absent", "DRAFT", "PUBLISHED", "deleted"}]
        /\ publishedAt \in [Pages!Article -> Nat \cup {None}]
        /\ since \in [Pages!Article -> Nat \cup {None}]
        /\ pageCache \in [Pages!Page -> Pages!Listing \cup {None}]
    BY DEF Pages!Init, Pages!Page
  <2>3. /\ writes \in 0 .. MaxArticleWrites /\ total \in 0 .. MaxArticles
        /\ page = None /\ pagePc = "idle" /\ limit \in Limits
    BY PageAssumptions DEF Pages!Assumptions, Pages!Init
  <2>4. QED
    BY <2>1, <2>2, <2>3 DEF Pages!Init, Typed, Pages!TypeOK
<1>2. DatedInv /\ TypedInv /\ [Next]_vars => TypedInv'
  <2> SUFFICES ASSUME DatedInv, TypedInv, [Next]_vars, subject' = "pages"
               PROVE  Typed'
    OBVIOUS
  <2>1. CASE About("pages") /\ Pages!Next
    <3>1. Typed /\ Dated /\ Dated'
      BY <2>1, DatedStep DEF About, DatedInv
    <3>2. QED
      BY <2>1, <3>1, PageSteps, ClientTyped, WriterTyped
  <2>2. CASE UNCHANGED <<subject, pageVars>>
    BY <2>2 DEF pageVars, Typed, Pages!TypeOK
  <2>3. QED
    BY <2>1, <2>2 DEF Next, About, vars
<1>3. QED
  BY <1>1, <1>2, DatedInvariant, PTL DEF Spec

-----------------------------------------------------------------------------
(* Walking through a feed that nobody writes.                              *)

\* What the handler at work has read is what the database has.
InHand ==
    /\ pagePc \in {"count", "store"} => items = Pages!findItems(page)
    /\ pagePc = "store" => total = Cardinality(Pages!Public)

AllFresh == \A p \in Pages!Page : Pages!Fresh(p)

\* The listings that a client may get now are of the feed as it is.
Settled == AllFresh /\ InHand

\* Where no row changes, neither does the feed.
LEMMA SameFeed ==
    ASSUME UNCHANGED <<Pages!rowVars, limit>>, NEW p, NEW a
    PROVE  /\ Pages!Public' = Pages!Public
           /\ Pages!row(a)' = Pages!row(a)
           /\ Pages!findItems(p)' = Pages!findItems(p)
           /\ Pages!skip(p)' = Pages!skip(p)
           /\ Pages!Current(p)' = Pages!Current(p)
BY DEF Pages!rowVars, Pages!Public, Pages!row, Pages!newestFirst, Pages!findItems,
   Pages!skip, Pages!Current, Pages!listing, Pages!totalPages

\* A client's steps, and keys that go, keep it so.
LEMMA ClientSettled ==
    ASSUME Typed, Settled,
           \/ Pages!Begin \/ Pages!GetFeed \/ Pages!FindItems \/ Pages!Count \/ Pages!Store
           \/ \E p \in Pages!Page : Pages!Expire(p)
    PROVE  Settled'
<1> USE DEF Pages!cacheVars, Pages!queryVars, Pages!walkVars
<1>1. UNCHANGED <<Pages!rowVars, limit>>
  BY DEF Pages!Begin, Pages!GetFeed, Pages!FindItems, Pages!Count, Pages!Store, Pages!Expire
<1>2. \A p : /\ Pages!Current(p)' = Pages!Current(p)
             /\ Pages!findItems(p)' = Pages!findItems(p)
             /\ Pages!Public' = Pages!Public
  BY <1>1, SameFeed
<1>3. CASE Pages!Begin \/ Pages!GetFeed
  <2>1. UNCHANGED pageCache /\ pagePc' \in {"idle", "items"}
    BY <1>3 DEF Pages!Begin, Pages!GetFeed
  <2>2. QED
    BY <1>2, <2>1 DEF Settled, AllFresh, InHand, Pages!Fresh, Pages!Page
<1>4. CASE Pages!FindItems
  <2>1. /\ items' = Pages!findItems(page) /\ page' = page
        /\ UNCHANGED pageCache /\ pagePc' = "count"
    BY <1>4 DEF Pages!FindItems
  <2>2. QED
    BY <1>2, <2>1 DEF Settled, AllFresh, InHand, Pages!Fresh, Pages!Page
<1>5. CASE Pages!Count
  <2>1. /\ items' = items /\ page' = page /\ total' = Cardinality(Pages!Public)
        /\ UNCHANGED pageCache /\ pagePc = "count" /\ pagePc' = "store"
    BY <1>5, PageSets DEF Pages!Count
  <2>2. QED
    BY <1>2, <2>1 DEF Settled, AllFresh, InHand, Pages!Fresh, Pages!Page
<1>6. CASE Pages!Store
  <2>1. /\ pageCache' = [pageCache EXCEPT ![page] = Pages!listing(items, total)]
        /\ pagePc = "store" /\ pagePc' = "idle"
    BY <1>6 DEF Pages!Store, Pages!set
  <2>2. Pages!listing(items, total) = Pages!Current(page)
    BY <2>1, PageSets DEF Settled, InHand, Pages!Current
  <2>3. \A p \in Pages!Page : pageCache'[p] \in {None, Pages!Current(p)}
    BY <2>1, <2>2 DEF Settled, AllFresh, Pages!Fresh, Typed, Pages!TypeOK
  <2>4. QED
    BY <1>2, <2>1, <2>3 DEF Settled, AllFresh, InHand, Pages!Fresh, Pages!Page
<1>7. CASE \E p \in Pages!Page : Pages!Expire(p)
  <2>1. /\ \A p \in Pages!Page : pageCache'[p] \in {None, pageCache[p]}
        /\ UNCHANGED <<pagePc, items, total, page>>
    BY <1>7 DEF Pages!Expire, Pages!expire, Pages!del, Pages!delAll, Typed, Pages!TypeOK
  <2>2. QED
    BY <1>2, <2>1 DEF Settled, AllFresh, InHand, Pages!Fresh, Pages!Page
<1>8. QED
  BY <1>3, <1>4, <1>5, <1>6, <1>7

\* A client has been shown the articles before its page, each once.
Passed(p) == {a \in Pages!Public : Pages!row(a) < Pages!skip(p)}

\* While nothing is written since a walk began in a feed without stale copies.
QuietWalk ==
    quiet =>
        /\ writer = "idle"
        /\ Settled
        /\ base = Pages!Public
        /\ ~repeated
        /\ seen = IF page = None THEN base ELSE Passed(page)

\* What a client gets for a page is the feed from that page to the next, and
\* on the last page, to its end.
LEMMA PageShows ==
    ASSUME Typed, page # None, Pages!Receive(Pages!Current(page)),
           UNCHANGED <<Pages!rowVars, limit>>
    PROVE  /\ \A a \in Pages!Public : Pages!row(a) < Pages!skip(page) =>
                                        a \notin Pages!findItems(page)
           /\ \A a \in Pages!findItems(page) : a \in Pages!Public
           /\ seen' = seen \cup Pages!findItems(page)
           /\ repeated' = (repeated \/ seen \cap Pages!findItems(page) # {})
           /\ page' # None =>
                 \A a \in Pages!Public :
                     Pages!row(a) < Pages!skip(page)' <=>
                         Pages!row(a) < Pages!skip(page) \/ a \in Pages!findItems(page)
           /\ page' = None =>
                 \A a \in Pages!Public :
                     Pages!row(a) < Pages!skip(page) \/ a \in Pages!findItems(page)
<1> USE PageAssumptions DEF Pages!Assumptions
<1> DEFINE l == Pages!Current(page)
           n == Cardinality(Pages!Public)
<1>1. page \in Nat \ {0} /\ limit \in Nat \ {0} /\ n \in Nat
  <2>1. n \in Nat
    BY PublicFinite DEF Pages!Public
  <2>2. QED
    BY <2>1 DEF Typed, Pages!TypeOK, Pages!Page
<1>2. l.items = Pages!findItems(page) /\ l.totalPages = Pages!totalPages(n)
  BY PageSets DEF Pages!Current, Pages!listing
<1>3. /\ seen' = seen \cup Pages!findItems(page)
      /\ repeated' = (repeated \/ seen \cap Pages!findItems(page) # {})
      /\ page' = IF page < Pages!totalPages(n) THEN page + 1 ELSE None
  BY <1>2 DEF Pages!Receive
<1>4. /\ Pages!skip(page) \in Nat
      /\ Pages!skip(page + 1) = Pages!skip(page) + limit
      /\ Pages!skip(page + 1) = page * limit
  BY <1>1, NextPage
<1>5. Published
  BY DEF Published, Typed, Pages!TypeOK, Pages!Public
<1>6. \A a \in Pages!Public : Pages!row(a) \in Nat /\ Pages!row(a) < n
  BY <1>5, RowsInOrder, RowsCounted
<1>7. \A a \in Pages!Public :
        Pages!row(a) < Pages!skip(page + 1) <=>
            Pages!row(a) < Pages!skip(page) \/ a \in Pages!findItems(page)
  BY <1>1, <1>4, <1>6 DEF Pages!findItems
<1>8. \A a \in Pages!Public : Pages!row(a) < Pages!skip(page) => a \notin Pages!findItems(page)
  BY <1>4, <1>6 DEF Pages!findItems
<1>9. \A a \in Pages!findItems(page) : a \in Pages!Public
  BY DEF Pages!findItems
<1>10. CASE page < Pages!totalPages(n)
  <2>1. page' = page + 1 /\ page' # None
    BY <1>1, <1>3, <1>10
  <2>2. Pages!skip(page)' = Pages!skip(page + 1)
    BY <2>1 DEF Pages!skip
  <2>3. QED
    BY <1>3, <1>7, <1>8, <1>9, <2>1, <2>2
<1>11. CASE ~(page < Pages!totalPages(n))
  <2>1. page' = None
    BY <1>3, <1>11
  <2>2. n <= page * limit
    <3>1. /\ Pages!totalPages(n) \in 0 .. n
          /\ \A p \in Nat : p >= Pages!totalPages(n) => n <= p * limit
      BY <1>1, EnoughPages DEF Pages!totalPages
    <3>2. page >= Pages!totalPages(n)
      BY <1>1, <1>11, <3>1
    <3>3. QED
      BY <1>1, <3>1, <3>2
  <2>3. \A a \in Pages!Public : Pages!row(a) < Pages!skip(page + 1)
    <3> HIDE DEF n
    <3>1. QED
      BY <1>1, <1>4, <1>6, <2>2
  <2>4. QED
    BY <1>3, <1>7, <1>8, <1>9, <2>1, <2>3
<1>12. QED
  BY <1>10, <1>11

\* The first page begins at the first row.
LEMMA FirstPage ==
    ASSUME Typed
    PROVE  Pages!skip(1) = 0 /\ \A a : Pages!row(a) \in Nat /\ ~(Pages!row(a) < 0)
<1>1. limit \in Nat \ {0}
  BY PageAssumptions DEF Pages!Assumptions, Typed, Pages!TypeOK
<1>2. QED
  BY <1>1, NextPage, RowsCounted

\* A page the client gets brings it to the next one.
LEMMA QuietReceive ==
    ASSUME Typed, QuietWalk, quiet, quiet', page # None,
           Pages!Receive(Pages!Current(page)), Settled',
           UNCHANGED <<Pages!rowVars, limit, writer, base>>
    PROVE  QuietWalk'
<1>1. /\ writer = "idle" /\ base = Pages!Public /\ ~repeated /\ seen = Passed(page)
  BY DEF QuietWalk
<1>2. /\ \A a \in Pages!Public : Pages!row(a) < Pages!skip(page) =>
                                  a \notin Pages!findItems(page)
      /\ \A a \in Pages!findItems(page) : a \in Pages!Public
      /\ seen' = seen \cup Pages!findItems(page)
      /\ repeated' = (repeated \/ seen \cap Pages!findItems(page) # {})
  BY PageShows
<1>3. ~repeated'
  BY <1>1, <1>2 DEF Passed
<1>4. base' = Pages!Public'
  BY <1>1, SameFeed
<1>5. ASSUME page' = None
      PROVE  seen' = base'
  <2>1. \A a \in Pages!Public :
            Pages!row(a) < Pages!skip(page) \/ a \in Pages!findItems(page)
    BY <1>5, PageShows
  <2>2. QED
    BY <1>1, <1>2, <2>1 DEF Passed
<1>6. ASSUME page' # None
      PROVE  seen' = Passed(page)'
  <2>1. \A a \in Pages!Public :
            Pages!row(a) < Pages!skip(page)' <=>
                Pages!row(a) < Pages!skip(page) \/ a \in Pages!findItems(page)
    BY <1>6, PageShows
  <2>2. Pages!Public' = Pages!Public /\ \A a : Pages!row(a)' = Pages!row(a)
    BY SameFeed
  <2>3. \A a : a \in Passed(page)' <=> a \in Pages!Public /\ Pages!row(a) < Pages!skip(page)'
    BY <2>2 DEF Passed
  <2>4. \A a : a \in seen' <=> a \in Passed(page)'
    BY <1>1, <1>2, <2>1, <2>3 DEF Passed
  <2>5. QED
    BY <2>4, <1>2 DEF Passed
<1>7. QED
  BY <1>1, <1>3, <1>4, <1>5, <1>6 DEF QuietWalk

\* Every step keeps the walk over a feed that nobody writes.
LEMMA QuietStep ==
    ASSUME Typed, QuietWalk, Pages!Next
    PROVE  QuietWalk'
<1> SUFFICES ASSUME quiet'
             PROVE  QuietWalk'
  BY DEF QuietWalk
<1> USE DEF Pages!cacheVars, Pages!writerVars, Pages!queryVars, Pages!walkVars
<1>1. CASE Pages!Begin
  <2>1. /\ writer = "idle" /\ AllFresh /\ pagePc = "idle" /\ page' = 1 /\ seen' = {}
        /\ repeated' = FALSE /\ base' = Pages!Public
        /\ UNCHANGED <<Pages!rowVars, limit, writer>>
    BY <1>1 DEF Pages!Begin, AllFresh, Pages!Page, Pages!Fresh
  <2>2. Settled'
    BY <1>1, <2>1, ClientSettled DEF Settled, InHand
  <2>3. Pages!Public' = Pages!Public
    BY <2>1, SameFeed
  <2>4. Passed(page)' = {}
    <3>1. Pages!skip(1) = 0 /\ \A a : ~(Pages!row(a) < 0)
      BY FirstPage
    <3>2. Pages!skip(page)' = 0 /\ \A a : Pages!row(a)' = Pages!row(a)
      BY <2>1, <3>1, SameFeed DEF Pages!skip
    <3>3. QED
      BY <3>1, <3>2 DEF Passed
  <2>5. page' # None
    BY <2>1, PageAssumptions DEF Pages!Assumptions
  <2>6. QED
    BY <2>1, <2>2, <2>3, <2>4, <2>5 DEF QuietWalk
<1>2. CASE Pages!GetFeed \/ Pages!FindItems \/ Pages!Count \/ Pages!Store
           \/ \E p \in Pages!Page : Pages!Expire(p)
  <2>1. /\ quiet /\ UNCHANGED <<Pages!rowVars, limit, writer, base>>
    BY <1>2 DEF Pages!GetFeed, Pages!FindItems, Pages!Count, Pages!Store, Pages!Expire
  <2>2. Settled /\ Settled'
    BY <1>2, <2>1, ClientSettled DEF QuietWalk
  <2>3. CASE UNCHANGED <<page, seen, repeated>>
    <3>1. Pages!Public' = Pages!Public
      BY <2>1, SameFeed
    <3>2. Passed(page)' = Passed(page)
      BY <2>1, <2>3, SameFeed DEF Passed, Pages!skip
    <3>3. QED
      BY <2>1, <2>2, <2>3, <3>1, <3>2 DEF QuietWalk
  <2>4. CASE page # None /\ Pages!Receive(Pages!Current(page))
    BY <2>1, <2>2, <2>4, QuietReceive
  <2>5. CASE Pages!GetFeed
    <3>1. pageCache[page] # None => pageCache[page] = Pages!Current(page)
      BY <1>2, <2>2, <2>5 DEF Settled, AllFresh, Pages!Fresh, Pages!GetFeed, Typed, Pages!TypeOK
    <3>2. QED
      BY <2>3, <2>4, <2>5, <3>1 DEF Pages!GetFeed
  <2>6. CASE Pages!Store
    <3>1. pagePc = "store" /\ Pages!Receive(Pages!listing(items, total))
      BY <2>6 DEF Pages!Store
    <3>2. Pages!listing(items, total) = Pages!Current(page)
      BY <2>2, <3>1, PageSets DEF Settled, InHand, Pages!Current
    <3>3. page # None
      BY <3>1 DEF Typed
    <3>4. QED
      BY <2>4, <3>1, <3>2, <3>3
  <2>7. QED
    BY <1>2, <2>3, <2>5, <2>6 DEF Pages!FindItems, Pages!Count, Pages!Expire
<1>3. CASE Written
  BY <1>3, WrittenFrame
<1>4. CASE Pages!Keys \/ Pages!Del \/ Pages!Abort
  BY <1>4 DEF QuietWalk, Pages!Keys, Pages!Del, Pages!Abort
<1>5. QED
  BY <1>1, <1>2, <1>3, <1>4, PageSteps

QuietInv == subject = "pages" => QuietWalk

\* While nothing is written, what a client has been shown is what comes before
\* its page.
THEOREM QuietInvariant == Spec => []QuietInv
<1> USE DEF QuietInv
<1>1. Init => QuietInv
  BY DEF Init, Pages!Init, QuietWalk, Settled, AllFresh, InHand, Pages!Fresh, Pages!Public,
     Pages!Page
<1>2. TypedInv /\ QuietInv /\ [Next]_vars => QuietInv'
  <2> SUFFICES ASSUME TypedInv, QuietInv, [Next]_vars, subject' = "pages"
               PROVE  QuietWalk'
    OBVIOUS
  <2>1. CASE About("pages") /\ Pages!Next
    BY <2>1, QuietStep DEF About, TypedInv
  <2>2. CASE UNCHANGED <<subject, pageVars>>
    BY <2>2, SameFeed DEF pageVars, QuietWalk, Settled, AllFresh, InHand, Pages!Fresh,
       Pages!Page, Pages!rowVars, Passed, Pages!skip
  <2>3. QED
    BY <2>1, <2>2 DEF Next, About, vars
<1>3. QED
  BY <1>1, <1>2, TypedInvariant, PTL DEF Spec

\* A client that pages through a feed that nobody writes, with or without
\* copies in Redis, sees every article once: no boundary between two pages
\* drops or repeats one, and the last page is not missed.
THEOREM QuietWalksAreExact == Spec => []QuietWalkIsExact
<1>1. QuietInv => QuietWalkIsExact
  BY DEF QuietInv, QuietWalk, QuietWalkIsExact, Pages!QuietWalkIsExact
<1>2. QED
  BY <1>1, QuietInvariant, PTL

-----------------------------------------------------------------------------
(* Walking through a feed that only grows.                                 *)

\* A new article moves the others away from the beginning of the feed.
LEMMA CreatePushesBack ==
    ASSUME Typed, NEW a \in Pages!Article, NEW isPublished \in BOOLEAN,
           NEW given \in Dates \cup {None}, Pages!Create(a, isPublished, given)
    PROVE  /\ Pages!Public \subseteq Pages!Public'
           /\ \A b \in Pages!Public : Pages!row(b) <= Pages!row(b)'
<1>1. /\ status[a] = "absent"
      /\ \A b \in Pages!Article : b # a =>
            status'[b] = status[b] /\ publishedAt'[b] = publishedAt[b]
  BY DEF Pages!Create, Pages!Write, Typed, Pages!TypeOK
<1>2. Pages!Public \subseteq Pages!Public' /\ a \notin Pages!Public
  BY <1>1 DEF Pages!Public
<1>3. ASSUME NEW b \in Pages!Public
      PROVE  Pages!row(b) <= Pages!row(b)'
  <2>1. Before(b) \subseteq Before(b)'
    BY <1>1, <1>2 DEF Before, Pages!newestFirst, Pages!Public
  <2>2. Before(b)' \subseteq Pages!Article
    BY DEF Before, Pages!Public
  <2>3. IsFiniteSet(Before(b)')
    BY <2>2, PublicFinite
  <2>4. Cardinality(Before(b)) <= Cardinality(Before(b)')
    BY <2>1, <2>3, FS_Subset
  <2>5. /\ Pages!row(b) = Cardinality(Before(b))
        /\ Pages!row(b)' = Cardinality(Before(b)')
    BY PageSets DEF Pages!row, Before
  <2>6. QED
    BY <2>4, <2>5
<1>4. QED
  BY <1>2, <1>3

\* As long as no handlers overlap, what Redis holds and what a handler has
\* read is the feed, but between a write and the keys it deletes.
Serial ==
    pageSerial =>
        /\ pagePc # "idle" => writer = "idle"
        /\ writer = "idle" => Settled
        /\ writer = "del" => \A p \in Pages!Page : pageCache[p] # None => p \in doomed

\* While the feed only grows, a client has seen what was there when it began
\* and is now before its page.
GrowingWalk ==
    pageSerial /\ growing =>
        /\ base \subseteq Pages!Public
        /\ \A a \in base : page = None \/ Pages!row(a) < Pages!skip(page) => a \in seen

\* Every step keeps the cached pages up to date between requests.
LEMMA SerialStep ==
    ASSUME Typed, Serial, Pages!Next
    PROVE  Serial'
<1> SUFFICES ASSUME pageSerial'
             PROVE  Serial'
  BY DEF Serial
<1> USE DEF Pages!cacheVars, Pages!writerVars, Pages!queryVars, Pages!walkVars
<1>1. CASE Pages!Begin
  <2>1. pageSerial /\ UNCHANGED <<pagePc, writer, doomed, pageCache>>
    BY <1>1 DEF Pages!Begin
  <2>2. writer = "idle" => Settled'
    BY <1>1, <2>1, ClientSettled DEF Serial
  <2>3. QED
    BY <2>1, <2>2 DEF Serial, Pages!Page
<1>2. CASE Pages!GetFeed \/ Pages!FindItems \/ Pages!Count \/ Pages!Store
  <2>1. pageSerial /\ writer = "idle" /\ writer' = "idle"
    BY <1>2 DEF Serial, Pages!GetFeed, Pages!FindItems, Pages!Count, Pages!Store
  <2>2. Settled'
    BY <1>2, <2>1, ClientSettled DEF Serial
  <2>3. QED
    BY <2>1, <2>2 DEF Serial
<1>3. CASE \E p \in Pages!Page : Pages!Expire(p)
  <2>1. /\ pageSerial /\ UNCHANGED <<pagePc, writer, doomed>>
        /\ \A p \in Pages!Page : pageCache'[p] \in {None, pageCache[p]}
    BY <1>3 DEF Pages!Expire, Pages!expire, Pages!del, Pages!delAll, Typed, Pages!TypeOK
  <2>2. writer = "idle" => Settled'
    BY <1>3, <2>1, ClientSettled DEF Serial
  <2>3. QED
    BY <2>1, <2>2 DEF Serial, Pages!Page
<1>4. CASE Written
  BY <1>4, WrittenFrame DEF Serial
<1>5. ASSUME pagePc' = "idle", \A p \in Pages!Page : pageCache'[p] = None
      PROVE  Settled'
  BY <1>5 DEF Settled, AllFresh, InHand, Pages!Fresh, Pages!Page
<1>6. CASE Pages!Keys
  <2>1. /\ pageSerial /\ writer = "keys" /\ pagePc = "idle"
        /\ UNCHANGED <<pagePc, pageCache>>
        /\ doomed' = {p \in Pages!Page : pageCache[p] # None}
        /\ writer' = IF doomed' = {} THEN "idle" ELSE "del"
    BY <1>6 DEF Pages!Keys, Serial
  <2>2. CASE doomed' = {}
    BY <1>5, <2>1, <2>2 DEF Serial
  <2>3. CASE doomed' # {}
    BY <2>1, <2>3 DEF Serial, Pages!Page
  <2>4. QED
    BY <2>2, <2>3
<1>7. CASE Pages!Del
  <2>1. /\ pageSerial /\ writer = "del" /\ pagePc = "idle" /\ writer' = "idle"
        /\ pagePc' = "idle"
        /\ pageCache' = [p \in DOMAIN pageCache |-> IF p \in doomed THEN None ELSE pageCache[p]]
    BY <1>7 DEF Pages!Del, Pages!delAll, Serial
  <2>2. \A p \in Pages!Page : pageCache'[p] = None
    BY <2>1 DEF Serial, Typed, Pages!TypeOK
  <2>3. QED
    BY <1>5, <2>1, <2>2 DEF Serial
<1>8. CASE Pages!Abort
  BY <1>8 DEF Pages!Abort
<1>9. QED
  BY <1>1, <1>2, <1>3, <1>4, <1>6, <1>7, <1>8, PageSteps

\* A page the client gets brings it to the next one, or to the end.
LEMMA GrowingReceive ==
    ASSUME Typed, GrowingWalk, pageSerial, growing, page # None,
           Pages!Receive(Pages!Current(page)), UNCHANGED <<Pages!rowVars, limit, base>>
    PROVE  GrowingWalk'
<1>1. /\ base \subseteq Pages!Public
      /\ \A a \in base : Pages!row(a) < Pages!skip(page) => a \in seen
  BY DEF GrowingWalk
<1>2. seen' = seen \cup Pages!findItems(page)
  BY PageShows
<1>3. Pages!Public' = Pages!Public /\ \A a : Pages!row(a)' = Pages!row(a)
  BY SameFeed
<1>4. CASE page' = None
  <2>1. \A a \in Pages!Public :
            Pages!row(a) < Pages!skip(page) \/ a \in Pages!findItems(page)
    BY <1>4, PageShows
  <2>2. QED
    BY <1>1, <1>2, <1>3, <2>1 DEF GrowingWalk
<1>5. CASE page' # None
  <2>1. \A a \in Pages!Public :
            Pages!row(a) < Pages!skip(page)' =>
                Pages!row(a) < Pages!skip(page) \/ a \in Pages!findItems(page)
    BY <1>5, PageShows
  <2>2. QED
    BY <1>1, <1>2, <1>3, <1>5, <2>1 DEF GrowingWalk
<1>6. QED
  BY <1>4, <1>5

\* Every step keeps the walk over a feed that only grows.
LEMMA GrowingStep ==
    ASSUME Typed, Serial, GrowingWalk, Pages!Next
    PROVE  GrowingWalk'
<1> SUFFICES ASSUME pageSerial', growing'
             PROVE  GrowingWalk'
  BY DEF GrowingWalk
<1> USE DEF Pages!cacheVars, Pages!writerVars, Pages!queryVars, Pages!walkVars
<1>1. CASE Pages!Begin
  <2>1. /\ page' = 1 /\ base' = Pages!Public /\ UNCHANGED <<Pages!rowVars, limit>>
    BY <1>1 DEF Pages!Begin
  <2>2. Pages!Public' = Pages!Public
    BY <2>1, SameFeed
  <2>3. Pages!skip(page)' = 0 /\ page' # None /\ \A a : ~(Pages!row(a)' < 0)
    <3>1. Pages!skip(1) = 0 /\ \A a : ~(Pages!row(a) < 0)
      BY FirstPage
    <3>2. page' # None
      BY <2>1, PageAssumptions DEF Pages!Assumptions
    <3>3. \A a : Pages!row(a)' = Pages!row(a)
      BY <2>1, SameFeed
    <3>4. QED
      BY <2>1, <3>1, <3>2, <3>3 DEF Pages!skip
  <2>4. QED
    BY <2>1, <2>2, <2>3 DEF GrowingWalk
<1>2. CASE UNCHANGED <<Pages!rowVars, limit, page, seen, base, growing>> /\ pageSerial
  BY <1>2, SameFeed DEF GrowingWalk, Pages!skip
<1>3. CASE Pages!GetFeed
  <2>1. /\ pageSerial /\ growing /\ writer = "idle" /\ page # None
        /\ UNCHANGED <<Pages!rowVars, limit, base, growing>>
    BY <1>3 DEF Pages!GetFeed
  <2>2. CASE pageCache[page] = None
    BY <1>2, <1>3, <2>1, <2>2 DEF Pages!GetFeed
  <2>3. CASE pageCache[page] # None
    <3>1. pageCache[page] = Pages!Current(page)
      BY <2>1, <2>3 DEF Serial, Settled, AllFresh, Pages!Fresh, Typed, Pages!TypeOK
    <3>2. Pages!Receive(Pages!Current(page))
      BY <1>3, <2>3, <3>1 DEF Pages!GetFeed
    <3>3. QED
      BY <2>1, <3>2, GrowingReceive
  <2>4. QED
    BY <2>2, <2>3
<1>4. CASE Pages!Store
  <2>1. /\ pageSerial /\ growing /\ pagePc = "store" /\ page # None
        /\ Pages!Receive(Pages!listing(items, total))
        /\ UNCHANGED <<Pages!rowVars, limit, base>>
    BY <1>4 DEF Pages!Store, Typed
  <2>2. Pages!listing(items, total) = Pages!Current(page)
    BY <2>1, PageSets DEF Serial, Settled, InHand, Pages!Current
  <2>3. QED
    BY <2>1, <2>2, GrowingReceive
<1>5. CASE Written
  <2>1. PICK a \in Pages!Article, isPublished \in BOOLEAN, given \in Dates \cup {None} :
            Pages!Create(a, isPublished, given)
    BY <1>5 DEF Written, Pages!Update, Pages!Delete, Pages!Write
  <2>2. /\ Pages!Public \subseteq Pages!Public'
        /\ \A b \in Pages!Public : Pages!row(b) <= Pages!row(b)'
    BY <2>1, CreatePushesBack
  <2>3. /\ pageSerial /\ growing
        /\ UNCHANGED <<limit, page, seen, base>>
    BY <2>1 DEF Pages!Create, Pages!Write
  <2>4. Pages!skip(page)' = Pages!skip(page)
    BY <2>3 DEF Pages!skip
  <2>5. page # None => Pages!skip(page) \in Nat
    <3>1. limit \in Nat \ {0} /\ (page # None => page \in Nat \ {0})
      BY PageAssumptions DEF Pages!Assumptions, Typed, Pages!TypeOK, Pages!Page
    <3>2. QED
      BY <3>1, NextPage
  <2>6. \A b : Pages!row(b) \in Nat
    BY RowsCounted
  <2>7. \A b : Pages!row(b)' \in Nat
    BY PublicFinite, PageSets DEF Pages!row, Pages!Public
  <2>8. QED
    BY <2>2, <2>3, <2>4, <2>5, <2>6, <2>7 DEF GrowingWalk
<1>6. CASE \/ Pages!FindItems \/ Pages!Count \/ Pages!Keys \/ Pages!Del \/ Pages!Abort
           \/ \E p \in Pages!Page : Pages!Expire(p)
  BY <1>2, <1>6 DEF Pages!FindItems, Pages!Count, Pages!Keys, Pages!Del, Pages!Abort,
     Pages!Expire
<1>7. QED
  BY <1>1, <1>3, <1>4, <1>5, <1>6, PageSteps

GrowingInv == subject = "pages" => Serial /\ GrowingWalk

\* Without overlaps, listings are of the feed as it is, and what a client has
\* not seen of the feed it began with is still ahead of it.
THEOREM GrowingInvariant == Spec => []GrowingInv
<1> USE DEF GrowingInv
<1>1. Init => GrowingInv
  BY DEF Init, Pages!Init, Serial, GrowingWalk, Settled, AllFresh, InHand, Pages!Fresh,
     Pages!Page
<1>2. TypedInv /\ GrowingInv /\ [Next]_vars => GrowingInv'
  <2> SUFFICES ASSUME TypedInv, GrowingInv, [Next]_vars, subject' = "pages"
               PROVE  (Serial /\ GrowingWalk)'
    OBVIOUS
  <2>1. CASE About("pages") /\ Pages!Next
    BY <2>1, SerialStep, GrowingStep DEF About, TypedInv
  <2>2. CASE UNCHANGED <<subject, pageVars>>
    BY <2>2, SameFeed DEF pageVars, Serial, GrowingWalk, Settled, AllFresh, InHand,
       Pages!Fresh, Pages!Page, Pages!rowVars, Pages!skip
  <2>3. QED
    BY <2>1, <2>2 DEF Next, About, vars
<1>3. QED
  BY <1>1, <1>2, TypedInvariant, PTL DEF Spec

\* A client that pages through a feed to which articles are added, wherever
\* their dates put them, misses none that was there when it began, as long as
\* no handlers overlap: new articles only push the others towards the pages
\* that are still to come.
THEOREM GrowthHidesNothingFromWalks == Spec => []GrowthHidesNothing
<1>1. GrowingInv => GrowthHidesNothing
  BY DEF GrowingInv, GrowingWalk, GrowthHidesNothing, Pages!GrowthHidesNothing
<1>2. QED
  BY <1>1, GrowingInvariant, PTL
=============================================================================
