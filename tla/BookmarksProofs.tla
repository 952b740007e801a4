---------------------------- MODULE BookmarksProofs ----------------------------
(***************************************************************************)
(* Proofs about Bookmarks, for any finite sets of users and handlers and   *)
(* any set of articles: the counter conservation law is inductive.  Every  *)
(* step moves at most one handler and at most one row, so the proof counts *)
(* how one handler and one row change the cardinalities in the law.        *)
(***************************************************************************)
EXTENDS Bookmarks, FiniteSetTheorems, TLAPS

\* What handler r contributes to At(label, a), and row <<u, a>> to Marks(a).
Counts(r, label, a) == IF pc[r] = label /\ art[r] = a THEN 1 ELSE 0
Marked(u, a) == IF <<u, a>> \in bookmark THEN 1 ELSE 0

\* Cardinalities of the finite sets of the law are numbers.
LEMMA CardinalityNat ==
    ASSUME NEW a \in Article, NEW label
    PROVE  Cardinality(At(label, a)) \in Nat /\ Cardinality(Marks(a)) \in Nat
<1>1. At(label, a) \subseteq Request /\ Marks(a) \subseteq User
  BY DEF At, Marks
<1>2. QED
  BY <1>1, UserAssumption, RequestAssumption, FS_Subset, FS_CardinalityType

\* When only handler r moves, only its contribution to At(label, a) changes.
LEMMA MoveOne ==
    ASSUME TypeOK, NEW r \in Request, NEW label, NEW a \in Article,
           \A q \in Request \ {r} : pc'[q] = pc[q] /\ art'[q] = art[q]
    PROVE  Cardinality(At(label, a))' =
             Cardinality(At(label, a)) - Counts(r, label, a) + Counts(r, label, a)'
<1> DEFINE old == At(label, a)
           new == At(label, a)'
           rest == old \ {r}
<1>1. IsFiniteSet(old) /\ IsFiniteSet(rest) /\ Cardinality(rest) \in Nat
  BY RequestAssumption, FS_Subset, FS_CardinalityType DEF At
<1>2. Cardinality(old) = Cardinality(rest) + Counts(r, label, a)
  <2>1. CASE r \in old
    <3>1. Counts(r, label, a) = 1
      BY <2>1 DEF At, Counts
    <3>2. Cardinality(rest) = Cardinality(old) - 1 /\ Cardinality(old) \in Nat
      <4> HIDE DEF old
      <4>1. QED
        BY <1>1, <2>1, FS_RemoveElement, FS_CardinalityType
    <3>3. QED
      BY <3>1, <3>2
  <2>2. CASE r \notin old
    <3>1. rest = old
      BY <2>2
    <3>2. Counts(r, label, a) = 0
      BY <2>2 DEF At, Counts
    <3>3. Cardinality(rest) = Cardinality(old)
      BY <3>1
    <3>4. QED
      BY <1>1, <3>2, <3>3
  <2>3. QED
    BY <2>1, <2>2
<1>3. Cardinality(new) = Cardinality(rest) + Counts(r, label, a)'
  <2>1. CASE r \in new
    <3>1. new = rest \cup {r} /\ r \notin rest
      BY <2>1 DEF At
    <3>2. QED
      BY <1>1, <2>1, <3>1, FS_AddElement DEF At, Counts
  <2>2. CASE r \notin new
    <3>1. new = rest
      BY <2>2 DEF At
    <3>2. QED
      BY <1>1, <2>2, <3>1 DEF At, Counts
  <2>3. QED
    BY <2>1, <2>2
<1>4. Counts(r, label, a) \in {0, 1} /\ Counts(r, label, a)' \in {0, 1}
  BY DEF Counts
<1>5. Cardinality(At(label, a))' = Cardinality(new)
  BY DEF At
<1>6. QED
  BY <1>1, <1>2, <1>3, <1>4, <1>5

\* Adding or removing one row changes the marks of its article by one.
LEMMA MarkOne ==
    ASSUME NEW u \in User, NEW b \in Article, NEW a \in Article,
           \/ bookmark' = bookmark \cup {<<u, b>>}
           \/ bookmark' = bookmark \ {<<u, b>>}
    PROVE  Cardinality(Marks(a))' =
             IF a = b THEN Cardinality(Marks(a)) - Marked(u, a) + Marked(u, a)'
                      ELSE Cardinality(Marks(a))
<1> DEFINE old == Marks(a)
           new == {v \in User : <<v, a>> \in bookmark'}
<1>1. IsFiniteSet(old) /\ Cardinality(old) \in Nat
  BY UserAssumption, FS_Subset, FS_CardinalityType DEF Marks
<1>2. Cardinality(Marks(a))' = Cardinality(new)
  BY DEF Marks
<1>3. CASE a # b
  <2>1. new = old
    BY <1>3 DEF Marks
  <2>2. QED
    BY <1>2, <1>3, <2>1
<1>4. CASE a = b /\ bookmark' = bookmark \cup {<<u, b>>}
  <2>1. new = old \cup {u}
    BY <1>4 DEF Marks
  <2>2. Marked(u, a)' = 1 /\ Marked(u, a) = (IF u \in old THEN 1 ELSE 0)
    BY <1>4 DEF Marked, Marks
  <2>3. Cardinality(new) = IF u \in old THEN Cardinality(old) ELSE Cardinality(old) + 1
    BY <1>1, <2>1, FS_AddElement
  <2>4. QED
    BY <1>1, <1>2, <1>4, <2>2, <2>3
<1>5. CASE a = b /\ bookmark' = bookmark \ {<<u, b>>}
  <2>1. new = old \ {u}
    BY <1>5 DEF Marks
  <2>2. Marked(u, a)' = 0 /\ Marked(u, a) = (IF u \in old THEN 1 ELSE 0)
    BY <1>5 DEF Marked, Marks
  <2>3. Cardinality(new) = IF u \in old THEN Cardinality(old) - 1 ELSE Cardinality(old)
    BY <1>1, <2>1, FS_RemoveElement
  <2>4. QED
    BY <1>1, <1>2, <1>5, <2>2, <2>3
<1>6. QED
  BY <1>3, <1>4, <1>5

-----------------------------------------------------------------------------
\* Rows, the counter and the handlers have their types in every reachable
\* state, crashes included.
THEOREM TypeInvariant == Spec => []TypeOK
<1>1. Init => TypeOK
  BY MaxLostAssumption DEF Init, TypeOK, Label
<1>2. TypeOK /\ [Next]_vars => TypeOK'
  <2> SUFFICES ASSUME TypeOK, [Next]_vars
               PROVE  TypeOK'
    OBVIOUS
  <2> USE MaxLostAssumption DEF TypeOK, Label, rowVars, historyVars
  <2>1. ASSUME NEW r \in Request, NEW u \in User, NEW a \in Article,
               AddBookmark(r, u, a) \/ RemoveBookmark(r, u, a)
        PROVE  TypeOK'
    BY <2>1 DEF AddBookmark, RemoveBookmark, Begin
  <2>2. ASSUME NEW r \in Request, Step(r)
        PROVE  TypeOK'
    <3>1. CASE AddExisting(r) \/ AddCreate(r)
      BY <3>1 DEF AddExisting, AddCreate, Goto, Leave, Row
    <3>2. CASE RemoveDelete(r)
      BY <3>2 DEF RemoveDelete, Goto, Leave, Row
    <3>3. CASE AddCount(r) \/ RemoveCount(r)
      BY <3>3 DEF AddCount, RemoveCount, addToCount, Leave
    <3>4. QED
      BY <2>2, <3>1, <3>2, <3>3 DEF Step
  <2>3. ASSUME \/ \E r \in Request : Abort(r)
               \/ \E a \in Article : TogglePublished(a)
               \/ UNCHANGED vars
        PROVE  TypeOK'
    BY <2>3 DEF Abort, Leave, TogglePublished, vars
  <2>4. QED
    BY <2>1, <2>2, <2>3 DEF Next
<1>3. QED
  BY <1>1, <1>2, PTL DEF Spec

-----------------------------------------------------------------------------
(* The conservation law of one article, and what it takes to keep it.      *)

Law(a) ==
    bookmarkCount[a] + Cardinality(At("add.count", a)) + drift[a]
        = Cardinality(Marks(a)) + Cardinality(At("remove.count", a))

\* What handler r adds to the left of the law minus what it adds to the right.
Pending(r, a) == Counts(r, "add.count", a) - Counts(r, "remove.count", a)

\* A step of handler r keeps the law when the counter, the drift, the marks
\* and what r has pending change together.
LEMMA LawStep ==
    ASSUME TypeOK, TypeOK', NEW r \in Request, NEW a \in Article, Law(a),
           \A q \in Request \ {r} : pc'[q] = pc[q] /\ art'[q] = art[q],
           bookmarkCount'[a] - bookmarkCount[a] + Pending(r, a)' - Pending(r, a)
               + drift'[a] - drift[a]
             = Cardinality(Marks(a))' - Cardinality(Marks(a))
    PROVE  Law(a)'
<1>1. Cardinality(At("add.count", a))' = Cardinality(At("add.count", a))
        - Counts(r, "add.count", a) + Counts(r, "add.count", a)'
  BY MoveOne
<1>2. Cardinality(At("remove.count", a))' = Cardinality(At("remove.count", a))
        - Counts(r, "remove.count", a) + Counts(r, "remove.count", a)'
  BY MoveOne
<1>3. /\ Cardinality(At("add.count", a)) \in Nat
      /\ Cardinality(At("remove.count", a)) \in Nat
      /\ Cardinality(Marks(a)) \in Nat
  BY CardinalityNat
<1>4. Cardinality(Marks(a))' \in Nat
  <2>1. {v \in User : <<v, a>> \in bookmark'} \subseteq User
    OBVIOUS
  <2>2. QED
    BY <2>1, UserAssumption, FS_Subset, FS_CardinalityType DEF Marks
<1>5. /\ Counts(r, "add.count", a) \in {0, 1}
      /\ Counts(r, "add.count", a)' \in {0, 1}
      /\ Counts(r, "remove.count", a) \in {0, 1}
      /\ Counts(r, "remove.count", a)' \in {0, 1}
  BY DEF Counts
<1>6. /\ bookmarkCount[a] \in Int /\ bookmarkCount'[a] \in Int
      /\ drift[a] \in Int /\ drift'[a] \in Int
  BY DEF TypeOK
<1>7. QED
  BY <1>1, <1>2, <1>3, <1>4, <1>5, <1>6 DEF Law, Pending

\* Rows that stay as they are keep their marks.
LEMMA MarksSame ==
    ASSUME NEW a \in Article, UNCHANGED bookmark
    PROVE  Cardinality(Marks(a))' = Cardinality(Marks(a))
BY DEF Marks

\* The counter of every article is conserved, whatever handlers interleave
\* and wherever they crash.
THEOREM CountIsConserved == Spec => []CountConserved
<1> USE DEF rowVars, historyVars
<1>1. Init => CountConserved
  <2> SUFFICES ASSUME Init, NEW a \in Article
               PROVE  Law(a)
    BY DEF CountConserved, Law
  <2>1. At("add.count", a) = {} /\ At("remove.count", a) = {} /\ Marks(a) = {}
    BY DEF Init, At, Marks
  <2>2. QED
    BY <2>1, FS_EmptySet DEF Init, Law
<1>2. ASSUME TypeOK, TypeOK', CountConserved, [Next]_vars
      PROVE  CountConserved'
  <2> SUFFICES ASSUME NEW a \in Article
               PROVE  Law(a)'
    BY DEF CountConserved, Law
  <2>a. Law(a)
    BY <1>2 DEF CountConserved, Law
  <2>b. bookmarkCount[a] \in Int /\ drift[a] \in Int /\ Cardinality(Marks(a)) \in Nat
    BY <1>2, CardinalityNat DEF TypeOK
  <2> USE <1>2, <2>a, <2>b
  <2>1. ASSUME NEW r \in Request, NEW u \in User, NEW b \in Article,
               AddBookmark(r, u, b) \/ RemoveBookmark(r, u, b)
        PROVE  Law(a)'
    <3>1. Pending(r, a)' = 0 /\ Pending(r, a) = 0
      BY <2>1 DEF AddBookmark, RemoveBookmark, Begin, Pending, Counts, TypeOK
    <3>2. QED
      BY <2>1, <3>1, LawStep, MarksSame
      DEF AddBookmark, RemoveBookmark, Begin, TypeOK
  <2>2. ASSUME NEW r \in Request, AddExisting(r)
        PROVE  Law(a)'
    <3>1. Pending(r, a)' = 0 /\ Pending(r, a) = 0
      BY <2>2 DEF AddExisting, Goto, Leave, Pending, Counts, TypeOK
    <3>2. QED
      BY <2>2, <3>1, LawStep, MarksSame DEF AddExisting, Goto, Leave, TypeOK
  <2>3. ASSUME NEW r \in Request, AddCreate(r)
        PROVE  Law(a)'
    <3>1. usr[r] \in User /\ art[r] \in Article
      BY <2>3 DEF AddCreate, TypeOK
    <3>2. Cardinality(Marks(a))' - Cardinality(Marks(a))
            = IF a = art[r] /\ Row(r) \notin bookmark THEN 1 ELSE 0
      <4>0. PICK u \in User, b \in Article : u = usr[r] /\ b = art[r]
        BY <3>1
      <4>1. Cardinality(Marks(a))' =
              IF a = b THEN Cardinality(Marks(a)) - Marked(u, a) + Marked(u, a)'
                       ELSE Cardinality(Marks(a))
        <5>1. \/ bookmark' = bookmark \cup {<<u, b>>}
              \/ bookmark' = bookmark \ {<<u, b>>}
          BY <2>3, <4>0 DEF AddCreate, Row
        <5>2. QED
          BY <5>1, MarkOne
      <4>2. a = b => /\ Marked(u, a)' = 1
                     /\ Marked(u, a) = IF Row(r) \in bookmark THEN 1 ELSE 0
        BY <2>3, <4>0 DEF AddCreate, Row, Marked
      <4>3. QED
        <5>1. CASE a = b /\ Row(r) \in bookmark
          BY <4>0, <4>1, <4>2, <5>1
        <5>2. CASE a = b /\ Row(r) \notin bookmark
          BY <4>0, <4>1, <4>2, <5>2
        <5>3. CASE a # b
          BY <4>0, <4>1, <5>3
        <5>4. QED
          BY <5>1, <5>2, <5>3
    <3>3. Pending(r, a) = 0 /\ Pending(r, a)' =
            IF a = art[r] /\ Row(r) \notin bookmark THEN 1 ELSE 0
      BY <2>3 DEF AddCreate, Goto, Leave, Pending, Counts, TypeOK
    <3>4. QED
      BY <2>3, <3>2, <3>3, LawStep DEF AddCreate, Goto, Leave, TypeOK
  <2>4. ASSUME NEW r \in Request, RemoveDelete(r)
        PROVE  Law(a)'
    <3>1. usr[r] \in User /\ art[r] \in Article
      BY <2>4 DEF RemoveDelete, TypeOK
    <3>2. Cardinality(Marks(a))' - Cardinality(Marks(a))
            = IF a = art[r] /\ Row(r) \in bookmark THEN -1 ELSE 0
      <4>0. PICK u \in User, b \in Article : u = usr[r] /\ b = art[r]
        BY <3>1
      <4>1. Cardinality(Marks(a))' =
              IF a = b THEN Cardinality(Marks(a)) - Marked(u, a) + Marked(u, a)'
                       ELSE Cardinality(Marks(a))
        <5>1. \/ bookmark' = bookmark \cup {<<u, b>>}
              \/ bookmark' = bookmark \ {<<u, b>>}
          BY <2>4, <4>0 DEF RemoveDelete, Row
        <5>2. QED
          BY <5>1, MarkOne
      <4>2. a = b => /\ Marked(u, a)' = 0
                     /\ Marked(u, a) = IF Row(r) \in bookmark THEN 1 ELSE 0
        BY <2>4, <4>0 DEF RemoveDelete, Row, Marked
      <4>3. QED
        <5>1. CASE a = b /\ Row(r) \in bookmark
          BY <4>0, <4>1, <4>2, <5>1
        <5>2. CASE a = b /\ Row(r) \notin bookmark
          BY <4>0, <4>1, <4>2, <5>2
        <5>3. CASE a # b
          BY <4>0, <4>1, <5>3
        <5>4. QED
          BY <5>1, <5>2, <5>3
    <3>3. Pending(r, a) = 0 /\ Pending(r, a)' =
            IF a = art[r] /\ Row(r) \in bookmark THEN -1 ELSE 0
      BY <2>4 DEF RemoveDelete, Goto, Leave, Pending, Counts, TypeOK
    <3>4. QED
      BY <2>4, <3>2, <3>3, LawStep DEF RemoveDelete, Goto, Leave, TypeOK
  <2>5. ASSUME NEW r \in Request, AddCount(r)
        PROVE  Law(a)'
    <3>1. /\ Pending(r, a)' = 0
          /\ Pending(r, a) = IF a = art[r] THEN 1 ELSE 0
          /\ bookmarkCount'[a] - bookmarkCount[a] = IF a = art[r] THEN 1 ELSE 0
      BY <2>5 DEF AddCount, addToCount, Leave, Pending, Counts, TypeOK
    <3>2. QED
      BY <2>5, <3>1, LawStep, MarksSame DEF AddCount, Leave, TypeOK
  <2>6. ASSUME NEW r \in Request, RemoveCount(r)
        PROVE  Law(a)'
    <3>1. /\ Pending(r, a)' = 0
          /\ Pending(r, a) = IF a = art[r] THEN -1 ELSE 0
          /\ bookmarkCount'[a] - bookmarkCount[a] = IF a = art[r] THEN -1 ELSE 0
      BY <2>6 DEF RemoveCount, addToCount, Leave, Pending, Counts, TypeOK
    <3>2. QED
      BY <2>6, <3>1, LawStep, MarksSame DEF RemoveCount, Leave, TypeOK
  <2>7. ASSUME NEW r \in Request, Abort(r)
        PROVE  Law(a)'
    <3>1. Pending(r, a)' = 0 /\ drift'[a] - drift[a] = Pending(r, a)
      BY <2>7 DEF Abort, Leave, Pending, Counts, TypeOK
    <3>2. Pending(r, a) \in Int
      BY DEF Pending, Counts
    <3>3. QED
      BY <2>7, <3>1, <3>2, LawStep, MarksSame DEF Abort, Leave, TypeOK
  <2>8. ASSUME UNCHANGED <<bookmark, bookmarkCount, drift, pc, art>>
        PROVE  Law(a)'
    BY <2>8 DEF Law, At, Marks
  <2>9. QED
    BY <2>1, <2>2, <2>3, <2>4, <2>5, <2>6, <2>7, <2>8
    DEF Next, Step, TogglePublished, vars
<1>3. QED
  BY <1>1, <1>2, TypeInvariant, PTL DEF Spec

-----------------------------------------------------------------------------
DriftBound == \A a \in Article : -lost <= drift[a] /\ drift[a] <= lost

\* Each crash loses at most one increment or decrement.
LEMMA DriftIsBounded == Spec => []DriftBound
<1> USE DEF rowVars, historyVars
<1>1. Init => DriftBound
  BY DEF Init, DriftBound
<1>2. ASSUME TypeOK, DriftBound, [Next]_vars
      PROVE  DriftBound'
  <2>1. ASSUME NEW r \in Request, Abort(r)
        PROVE  DriftBound'
    BY <1>2, <2>1, MaxLostAssumption DEF Abort, DriftBound, TypeOK
  <2>2. CASE UNCHANGED <<lost, drift>>
    BY <1>2, <2>2 DEF DriftBound
  <2>3. QED
    BY <1>2, <2>1, <2>2 DEF Next, Step, AddBookmark, RemoveBookmark, AddExisting,
       AddCreate, AddCount, RemoveDelete, RemoveCount, TogglePublished, vars
<1>3. QED
  BY <1>1, <1>2, TypeInvariant, PTL DEF Spec

\* When no handler is in flight the counter of every article is its number of
\* bookmarks, but for one per crash.
THEOREM IdleCountsAreExact == Spec => []ExactWhenIdle
<1>1. ASSUME TypeOK, CountConserved, DriftBound
      PROVE  ExactWhenIdle
  <2> SUFFICES ASSUME \A r \in Request : pc[r] = "idle", NEW a \in Article
               PROVE  LET off == bookmarkCount[a] - Cardinality(Marks(a))
                      IN  -lost <= off /\ off <= lost
    BY DEF ExactWhenIdle
  <2>1. At("add.count", a) = {} /\ At("remove.count", a) = {}
    BY DEF At
  <2>2. bookmarkCount[a] + drift[a] = Cardinality(Marks(a))
    <3>1. /\ Cardinality(At("add.count", a)) = 0
          /\ Cardinality(At("remove.count", a)) = 0
      BY <2>1, FS_EmptySet
    <3>2. bookmarkCount[a] \in Int /\ drift[a] \in Int /\ Cardinality(Marks(a)) \in Nat
      BY <1>1, CardinalityNat DEF TypeOK
    <3>3. QED
      BY <1>1, <3>1, <3>2 DEF CountConserved
  <2>3. QED
    BY <1>1, <2>2, CardinalityNat, MaxLostAssumption DEF TypeOK, DriftBound
<1>2. QED
  BY <1>1, TypeInvariant, CountIsConserved, DriftIsBounded, PTL

\* A counter goes below zero only as far as additions are pending or lost.
THEOREM CountIsBoundedBelow == Spec => []BoundedBelow
<1>1. ASSUME TypeOK, CountConserved, DriftBound
      PROVE  BoundedBelow
  <2> SUFFICES ASSUME NEW a \in Article
               PROVE  bookmarkCount[a] + Cardinality(At("add.count", a)) + lost >= 0
    BY DEF BoundedBelow
  <2>1. /\ bookmarkCount[a] \in Int /\ drift[a] \in Int /\ lost \in Nat
        /\ Cardinality(Marks(a)) \in Nat
        /\ Cardinality(At("add.count", a)) \in Nat
        /\ Cardinality(At("remove.count", a)) \in Nat
    BY <1>1, CardinalityNat, MaxLostAssumption DEF TypeOK
  <2>2. QED
    BY <1>1, <2>1 DEF CountConserved, DriftBound
<1>2. QED
  BY <1>1, TypeInvariant, CountIsConserved, DriftIsBounded, PTL
=============================================================================
