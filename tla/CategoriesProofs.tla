---------------------------- MODULE CategoriesProofs ---------------------------
(***************************************************************************)
(* Proofs about the categories of Services, for any number of categories   *)
(* and handlers: when their parents can form a loop, and what their cached *)
(* copies show.                                                            *)
(***************************************************************************)
EXTENDS Services, FiniteSetTheorems, TLAPS

-----------------------------------------------------------------------------
(* The tree.                                                               *)

\* The rows, and what LoopsNeedMoves rests on: rows are numbered in the order
\* of their creation, and only rows that exist have parents.
Tree ==
    /\ slug \in [Categories!Category -> Slug \cup {None}]
    /\ parent \in [Categories!Category -> Categories!Category \cup {None}]
    /\ moved \subseteq Categories!Category
    /\ \A c, d \in Categories!Category : Categories!Exists(c) /\ d < c => Categories!Exists(d)
    /\ Categories!LoopsNeedMoves

\* What a handler of a category knows between two of its queries: the row it
\* found is still there, and so is the parent it looked up, which is another.
Knows(r) ==
    /\ cat[r] # None => Categories!Exists(cat[r])
    /\ categoryPc[r] \in {"update.conflict", "parent.find", "write"} =>
          /\ new[r] \in Slug \cup {None}
          /\ cat[r] = None => new[r] \in Slug
    /\ categoryPc[r] = "delete.write" => cat[r] # None
    /\ categoryPc[r] = "write" /\ up[r] \in Categories!Category =>
          ~Categories!ParentRefused(cat[r], up[r])

Known ==
    /\ categoryPc \in [Request -> Categories!Label]
    /\ cat \in [Request -> Categories!Category \cup {None}]
    /\ new \in [Request -> Slug \cup {List, None}]
    /\ up \in [Request -> Categories!ParentId]
    /\ \A r \in Request : Knows(r)

\* A handler moves on without writing: the others know what they knew, and
\* so does it, if it does at its new label.
LEMMA GoesOn ==
    ASSUME Known, NEW r \in Request, NEW label \in Categories!Label,
           UNCHANGED <<slug, cat, new, up>>,
           categoryPc' = [categoryPc EXCEPT ![r] = label], Knows(r)'
    PROVE  Known'
<1>1. ASSUME NEW q \in Request, q # r
      PROVE  Knows(q)'
  <2>1. Knows(q) /\ UNCHANGED <<categoryPc[q], cat[q], new[q], up[q]>>
    BY <1>1 DEF Known
  <2>2. QED
    BY <2>1 DEF Knows, Categories!Exists, Categories!ParentRefused
<1>2. \A q \in Request : Knows(q)'
  BY <1>1
<1>3. QED
  BY <1>2 DEF Known

\* A request begins: what its handler then knows.
Enters(r) ==
    \E label \in {"find", "update.conflict", "parent.find", "write", "delete.write"},
       c \in Categories!Category \cup {None}, k \in Slug \cup {List, None},
       p \in Categories!ParentId :
        /\ Categories!Enter(r, label, c, k, p)
        /\ c # None => Categories!Exists(c)
        /\ label \in {"update.conflict", "parent.find", "write"} =>
              k \in Slug \cup {None} /\ (c = None => k \in Slug)
        /\ label = "delete.write" => c # None
        /\ label = "write" => p \notin Categories!Category

\* A request on categories arrives: what its first query found is so.
LEMMA CategoryArrives ==
    ASSUME Tree, Known, NEW r \in Request, Categories!Begin(r)
    PROVE  Tree' /\ Known'
<1> USE CategoryAssumptions DEF Categories!Assumptions, Categories!Category,
        Categories!Absent, Categories!ParentId, Categories!Label, Categories!Key
<1>1. UNCHANGED Categories!rowVars
  BY DEF Categories!Begin, Categories!Read, Categories!Create, Categories!Update,
     Categories!Delete
<1>2. Tree'
  BY <1>1 DEF Tree, Categories!rowVars, Categories!Exists, Categories!LoopsNeedMoves
<1>3. Enters(r)
  <2>1. CASE \E k \in Categories!Key : Categories!Read(r, k)
    BY <2>1 DEF Enters, Categories!Read
  <2>2. CASE \E k \in Slug, p \in Categories!ParentId : Categories!Create(r, k, p)
    BY <2>2 DEF Enters, Categories!Create, Categories!ParentOrWrite
  <2>3. ASSUME NEW c \in Categories!Category, NEW k \in Slug \cup {None},
               NEW p \in Categories!ParentId, Categories!Update(r, c, k, p)
        PROVE  Enters(r)
    BY <2>3 DEF Enters, Categories!Update, Categories!ParentOrWrite
  <2>4. CASE \E c \in Categories!Category : Categories!Delete(r, c)
    BY <2>4 DEF Enters, Categories!Delete
  <2>5. QED
    BY <2>1, <2>2, <2>3, <2>4 DEF Categories!Begin
<1>4. Known'
  BY <1>1, <1>3 DEF Enters, Known, Knows, Categories!Enter, Categories!rowVars, Categories!Exists,
     Categories!ParentRefused
<1>5. QED
  BY <1>2, <1>4

\* A handler of a category makes a query.
LEMMA CategoryQuery ==
    ASSUME Tree, Known, NEW r \in Request, Categories!Query(r)
    PROVE  Tree' /\ Known'
<1> USE CategoryAssumptions DEF Categories!Assumptions, Categories!Category,
        Categories!Absent, Categories!ParentId, Categories!Label, Categories!Exists,
        Categories!ParentRefused, Categories!localVars, Categories!Leave, Categories!Goto
<1>1. CASE UNCHANGED Categories!rowVars
  <2>1. Tree'
    BY <1>1 DEF Tree, Categories!rowVars, Categories!LoopsNeedMoves
  <2> SUFFICES Known'
    BY <2>1
  <2>2. slug' = slug
    BY <1>1 DEF Categories!rowVars
  <2>3. CASE Categories!Leave(r)
    BY <2>2, <2>3 DEF Known, Knows
  <2>4. Knows(r) /\ new[r] \in Slug \cup {List, None}
    BY DEF Known, Knows
  <2>5. CASE Categories!Goto(r, "del")
    <3>1. Knows(r)'
      BY <2>2, <2>4, <2>5 DEF Knows, Known
    <3>2. QED
      BY <2>2, <2>5, <3>1, GoesOn
  <2>6. ASSUME Categories!Find(r) \/ Categories!Include(r)
        PROVE  Known'
    <3>1. PICK label \in {"include", "store"} :
              /\ categoryPc' = [categoryPc EXCEPT ![r] = label]
              /\ UNCHANGED <<cat, new, up>>
      BY <2>6 DEF Categories!Find, Categories!Include, Categories!Found
    <3>2. Knows(r)'
      BY <2>2, <2>4, <3>1 DEF Knows, Known
    <3>3. QED
      BY <2>2, <3>1, <3>2, GoesOn
  <2>7. CASE Categories!Store(r) \/ Categories!Del(r)
    BY <2>3, <2>7 DEF Categories!Store, Categories!Del
  <2>8. CASE Categories!UpdateConflict(r)
    <3>1. ASSUME Categories!Goto(r, Categories!ParentOrWrite(up[r]))
          PROVE  Known'
      <4>1. Knows(r)'
        BY <2>2, <2>4, <2>8, <3>1 DEF Knows, Known, Categories!UpdateConflict,
           Categories!ParentOrWrite
      <4>2. Categories!ParentOrWrite(up[r]) \in Categories!Label
        BY DEF Categories!ParentOrWrite
      <4>3. QED
        BY <2>2, <3>1, <4>1, <4>2, GoesOn
    <3>2. QED
      BY <2>3, <2>8, <3>1 DEF Categories!UpdateConflict
  <2>9. CASE Categories!ParentFind(r)
    <3>1. ASSUME ~Categories!ParentRefused(cat[r], up[r]), Categories!Goto(r, "write")
          PROVE  Known'
      <4>1. Knows(r)'
        BY <2>2, <2>4, <2>9, <3>1 DEF Knows, Known, Categories!ParentFind
      <4>2. QED
        BY <2>2, <3>1, <4>1, GoesOn
    <3>2. QED
      BY <2>3, <2>9, <3>1 DEF Categories!ParentFind
  <2>10. CASE \/ \E c \in Categories!Category, isActive \in BOOLEAN :
                    Categories!CreateWrite(r, c, isActive)
              \/ \E isActive \in BOOLEAN : Categories!UpdateWrite(r, isActive)
              \/ Categories!DeleteWrite(r)
    <3>1. Categories!Leave(r) \/ Categories!Goto(r, "del")
      BY <2>10 DEF Categories!CreateWrite, Categories!UpdateWrite, Categories!DeleteWrite
    <3>2. QED
      BY <2>3, <2>5, <3>1
  <2>11. QED
    BY <2>6, <2>7, <2>8, <2>9, <2>10 DEF Categories!Query
<1>2. ASSUME NEW c \in Categories!Category, NEW k \in Slug,
             NEW p \in Categories!Category \cup {None},
             slug' = [slug EXCEPT ![c] = k], parent' = [parent EXCEPT ![c] = p],
             moved \subseteq moved', moved' \subseteq moved \cup {c},
             p # c, p # None /\ c \notin moved' => p < c,
             \A d \in Categories!Category : d < c => Categories!Exists(d),
             Categories!Goto(r, "del")
      PROVE  Tree' /\ Known'
  <2>1. \A d \in Categories!Category : slug'[d] = IF d = c THEN k ELSE slug[d]
    BY <1>2 DEF Tree
  <2>2. \A d \in Categories!Category : parent'[d] = IF d = c THEN p ELSE parent[d]
    BY <1>2 DEF Tree
  <2>3. Categories!LoopsNeedMoves'
    BY <1>2, <2>2 DEF Tree, Categories!LoopsNeedMoves
  <2>4. Tree'
    BY <1>2, <2>1, <2>3 DEF Tree
  <2>5. Known'
    BY <1>2, <2>1 DEF Known, Knows
  <2>6. QED
    BY <2>4, <2>5
<1>3. CASE ~UNCHANGED Categories!rowVars
  <2>1. ASSUME NEW c \in Categories!Category, NEW isActive \in BOOLEAN,
               Categories!CreateWrite(r, c, isActive)
        PROVE  Tree' /\ Known'
    <3> DEFINE p == IF up[r] \in Categories!Category THEN up[r] ELSE None
    <3>1. /\ slug' = [slug EXCEPT ![c] = new[r]]
          /\ parent' = [parent EXCEPT ![c] = p]
          /\ moved' = moved
          /\ Categories!Goto(r, "del")
      BY <1>3, <2>1 DEF Categories!CreateWrite, Categories!Write
    <3>2. new[r] \in Slug
      BY <2>1 DEF Known, Knows, Categories!CreateWrite
    <3>3. /\ ~Categories!Exists(c)
          /\ \A d \in Categories!Category : d < c => Categories!Exists(d)
      BY <2>1 DEF Categories!CreateWrite
    <3>4. p # None => p # c /\ p < c
      <4>1. p # None => p \in Categories!Category /\ Categories!Exists(p)
        BY <2>1 DEF Known, Knows, Categories!CreateWrite
      <4>2. QED
        BY <3>3, <4>1 DEF Tree
    <3>5. p \in Categories!Category \cup {None} /\ p # c
      BY <3>4
    <3> HIDE DEF p
    <3>6. QED
      BY <1>2, <3>1, <3>2, <3>3, <3>4, <3>5
  <2>2. ASSUME NEW isActive \in BOOLEAN, Categories!UpdateWrite(r, isActive)
        PROVE  Tree' /\ Known'
    <3> DEFINE c == cat[r]
               k == IF new[r] = None THEN slug[c] ELSE new[r]
               p == IF up[r] = Categories!Absent THEN parent[c] ELSE up[r]
    <3>1. /\ slug' = [slug EXCEPT ![c] = k]
          /\ parent' = [parent EXCEPT ![c] = p]
          /\ moved' = IF up[r] \in Categories!Category THEN moved \cup {c} ELSE moved
          /\ Categories!Goto(r, "del")
      BY <1>3, <2>2 DEF Categories!UpdateWrite, Categories!Write
    <3>2. c \in Categories!Category /\ Categories!Exists(c) /\ k \in Slug
      BY <2>2 DEF Known, Knows, Tree, Categories!UpdateWrite
    <3>3. /\ p \in Categories!Category \cup {None}
          /\ p # c
          /\ p # None /\ c \notin moved' => p < c
      BY <2>2, <3>1, <3>2 DEF Known, Knows, Tree, Categories!UpdateWrite, Categories!LoopsNeedMoves
    <3>4. moved \subseteq moved' /\ moved' \subseteq moved \cup {c}
      BY <3>1
    <3>5. \A d \in Categories!Category : d < c => Categories!Exists(d)
      BY <3>2 DEF Tree
    <3> HIDE DEF c, k, p
    <3>6. QED
      BY <1>2, <3>1, <3>2, <3>3, <3>4, <3>5
  <2>3. CASE Categories!DeleteWrite(r)
    <3>1. cat[r] \in Categories!Category /\ slug[cat[r]] \in Slug
      BY <2>3 DEF Known, Knows, Tree, Categories!DeleteWrite
    <3>2. /\ slug' = slug /\ parent' = parent /\ moved' = moved
          /\ Categories!Goto(r, "del")
      BY <2>3, <3>1 DEF Tree, Categories!DeleteWrite, Categories!Write
    <3>3. QED
      BY <3>2 DEF Tree, Known, Knows, Categories!LoopsNeedMoves
  <2>4. QED
    BY <1>3, <2>1, <2>2, <2>3 DEF Categories!Query, Categories!Find, Categories!Include,
       Categories!Found, Categories!Store, Categories!Del, Categories!UpdateConflict,
       Categories!ParentFind
<1>4. QED
  BY <1>1, <1>3

TreeInv == subject = "categories" => Tree /\ Known

\* The rows are a tree but for loops that updates closed, and every handler
\* still knows what it has looked up.
THEOREM TreeInvariant == Spec => []TreeInv
<1> USE DEF TreeInv
<1> DEFINE Inv == TreeInv
<1>1. Init => Inv
  BY CategoryAssumptions DEF Init, Categories!Init, Tree, Known, Knows, Categories!Exists,
     Categories!LoopsNeedMoves, Categories!Label, Categories!ParentId, Categories!Absent
<1>2. Inv /\ [Next]_vars => Inv'
  <2> SUFFICES ASSUME Inv, [Next]_vars, subject' = "categories"
               PROVE  (Tree /\ Known)'
    OBVIOUS
  <2>1. CASE About("categories") /\ Categories!Next
    <3>1. Tree /\ Known
      BY <2>1 DEF About
    <3>2. ASSUME NEW r \in Request, Categories!Arrive(r) \/ Categories!Step(r)
          PROVE  Tree' /\ Known'
      BY <3>1, <3>2, CategoryArrives, CategoryQuery DEF Categories!Arrive, Categories!Step
    <3>3. ASSUME NEW r \in Request, Categories!Abort(r)
          PROVE  Tree' /\ Known'
      BY <3>1, <3>3, CategoryAssumptions DEF Categories!Assumptions, Categories!Abort,
         Categories!Leave, Categories!rowVars, Tree, Known, Knows, Categories!Exists,
         Categories!LoopsNeedMoves, Categories!Label, Categories!ParentId,
         Categories!Absent, Categories!Category, Categories!ParentRefused
    <3>4. CASE \E k \in Categories!Key : Categories!Expire(k)
      BY <3>1, <3>4 DEF Categories!Expire, Categories!rowVars, Categories!localVars,
         Tree, Known, Knows, Categories!Exists, Categories!LoopsNeedMoves,
         Categories!ParentRefused
    <3>5. QED
      BY <2>1, <3>2, <3>3, <3>4 DEF Categories!Next
  <2>2. CASE UNCHANGED <<subject, categoryVars>>
    BY <2>2 DEF categoryVars, Tree, Known, Knows, Categories!Exists,
       Categories!LoopsNeedMoves, Categories!ParentRefused
  <2>3. QED
    BY <2>1, <2>2 DEF Next, About, vars
<1>3. QED
  BY <1>1, <1>2, PTL DEF Spec

\* Whatever categories are created, moved and deactivated at once: none is its
\* own parent, and the parents can only form a loop through one that an
\* update has moved; create and update look at one row, never at the tree.
THEOREM OnlyMovesCloseLoops == Spec => []LoopsNeedMoves
<1>1. TreeInv => LoopsNeedMoves
  BY DEF TreeInv, Tree, LoopsNeedMoves
<1>2. QED
  BY <1>1, TreeInvariant, PTL

-----------------------------------------------------------------------------
(* What Redis shows.                                                       *)

\* The instance's copies of the operators on finite sets are the library's.
LEMMA CategorySets ==
    ASSUME NEW S
    PROVE  /\ Categories!IsFiniteSet(S) <=> IsFiniteSet(S)
           /\ Categories!Cardinality(S) = Cardinality(S)
BY DEF Categories!IsFiniteSet, IsFiniteSet, Categories!Cardinality, Cardinality

\* The rows may be kept under this key.
Shows(k, rows) ==
    \A row \in rows : IF k = List THEN \E s \in Slug : <<row, s>> \in shown
                      ELSE Categories!WasActive(row, k)

\* What OnlyActiveIsCached rests on: whatever is active now was recorded as
\* shown, no version before it was written, and what is on its way into Redis
\* may be kept there.
Recorded ==
    /\ version \in [Categories!Category -> 0 .. MaxCategoryWrites]
    /\ active \subseteq Categories!Category
    /\ shown \subseteq Categories!Row \X Slug
    /\ \A c \in active : <<<<c, version[c]>>, slug[c]>> \in shown
    /\ \A entry \in shown : entry[1][2] <= version[entry[1][1]]

Copied ==
    /\ categoryCache \in [Categories!Key -> (SUBSET Categories!Row) \cup {None}]
    /\ val \in [Request -> SUBSET Categories!Row]
    /\ Categories!OnlyActiveIsCached
    /\ \A r \in Request : categoryPc[r] \in {"include", "store"} => Shows(new[r], val[r])

\* The bound on the writes bounds every version.
LEMMA VersionsBounded ==
    ASSUME Recorded, Cardinality(Categories!Written) < MaxCategoryWrites,
           NEW c \in Categories!Category
    PROVE  version[c] + 1 \in 1 .. MaxCategoryWrites
<1> USE CategoryAssumptions DEF Categories!Assumptions, Categories!Category
<1>1. SUFFICES ASSUME version[c] = MaxCategoryWrites
               PROVE  FALSE
  BY DEF Recorded
<1> DEFINE Mine == {c} \X (1 .. MaxCategoryWrites)
<1>2. Mine \subseteq Categories!Written
  BY <1>1 DEF Categories!Written, Categories!Row
<1>3. IsFiniteSet(Categories!Written)
  <2>1. IsFiniteSet(Categories!Row)
    <3>1. /\ IsFiniteSet(Categories!Category)
          /\ IsFiniteSet(1 .. MaxCategoryWrites)
      BY FS_Interval
    <3>2. QED
      BY <3>1, FS_Product DEF Categories!Row
  <2>2. QED
    BY <2>1, FS_Subset DEF Categories!Written
<1>4. Cardinality(Mine) = MaxCategoryWrites
  <2>1. IsFiniteSet({c}) /\ Cardinality({c}) = 1
    BY FS_Singleton
  <2>2. /\ IsFiniteSet(1 .. MaxCategoryWrites)
        /\ Cardinality(1 .. MaxCategoryWrites) = MaxCategoryWrites
    BY FS_Interval
  <2>3. Cardinality(Mine) = 1 * MaxCategoryWrites
    BY <2>1, <2>2, FS_Product
  <2>4. QED
    BY <2>3
<1>5. Cardinality(Mine) <= Cardinality(Categories!Written)
  BY <1>2, <1>3, FS_Subset
<1>6. Cardinality(Categories!Written) \in Nat
  BY <1>3, FS_CardinalityType
<1>7. QED
  BY <1>4, <1>5, <1>6

\* A write records what it makes active.
LEMMA WriteRecorded ==
    ASSUME Tree, Recorded, NEW c \in Categories!Category, NEW k \in Slug, NEW p,
           NEW isActive \in BOOLEAN, Categories!Write(c, k, p, isActive)
    PROVE  Recorded' /\ shown \subseteq shown'
<1>1. version[c] + 1 \in 1 .. MaxCategoryWrites
  BY VersionsBounded, CategorySets DEF Categories!Write
<1>2. version' = [version EXCEPT ![c] = @ + 1] /\ slug' = [slug EXCEPT ![c] = k]
  BY DEF Categories!Write
<1>3. /\ \A d \in Categories!Category : version'[d] = IF d = c THEN version[c] + 1 ELSE version[d]
      /\ \A d \in Categories!Category : slug'[d] = IF d = c THEN k ELSE slug[d]
  BY <1>2 DEF Recorded, Tree
<1>4. version' \in [Categories!Category -> 0 .. MaxCategoryWrites]
  BY <1>1, <1>2 DEF Recorded
<1>5. <<<<c, version[c] + 1>>, k>> \in Categories!Row \X Slug
  BY <1>1 DEF Categories!Row
<1>6. ASSUME NEW entry \in shown
      PROVE  entry[1][2] <= version'[entry[1][1]]
  <2>1. /\ entry[1][1] \in Categories!Category
        /\ entry[1][2] \in 1 .. MaxCategoryWrites
        /\ entry[1][2] <= version[entry[1][1]]
    BY <1>6 DEF Recorded, Categories!Row
  <2>2. /\ version[entry[1][1]] \in Nat
        /\ version'[entry[1][1]] >= version[entry[1][1]]
        /\ version'[entry[1][1]] \in Nat
    BY <1>3, <2>1 DEF Recorded
  <2>3. QED
    BY <2>1, <2>2
<1>7. CASE isActive
  <2>1. /\ active' = active \cup {c}
        /\ shown' = shown \cup {<<<<c, version[c] + 1>>, k>>}
    BY <1>7 DEF Categories!Write
  <2>2. \A d \in active' : <<<<d, version'[d]>>, slug'[d]>> \in shown'
    BY <1>3, <2>1 DEF Recorded
  <2>3. \A entry \in shown' : entry[1][2] <= version'[entry[1][1]]
    <3>1. ASSUME NEW entry \in shown
          PROVE  entry[1][2] <= version'[entry[1][1]]
      BY <1>6, <3>1
    <3>2. version[c] + 1 <= version'[c]
      BY <1>1, <1>3
    <3>3. \A entry \in shown' :
             entry \in shown \/ (entry[1][1] = c /\ entry[1][2] = version[c] + 1)
      BY <2>1
    <3>4. QED
      BY <3>1, <3>2, <3>3
  <2>4. QED
    BY <1>4, <1>5, <2>1, <2>2, <2>3 DEF Recorded
<1>8. CASE ~isActive
  <2>1. active' = active \ {c} /\ shown' = shown
    BY <1>8 DEF Categories!Write
  <2>2. \A d \in active' : <<<<d, version'[d]>>, slug'[d]>> \in shown'
    BY <1>3, <2>1 DEF Recorded
  <2>3. \A entry \in shown' : entry[1][2] <= version'[entry[1][1]]
    BY <1>6, <2>1
  <2>4. QED
    BY <1>4, <2>1, <2>2, <2>3 DEF Recorded
<1>9. QED
  BY <1>7, <1>8

\* The rows a query returns now were recorded as shown.
LEMMA CurrentShows ==
    ASSUME Tree, Recorded, NEW k
    PROVE  Categories!Current(k) \subseteq Categories!Row /\ Shows(k, Categories!Current(k))
<1>1. ASSUME NEW c \in Categories!Active(k)
      PROVE  /\ <<c, version[c]>> \in Categories!Row
             /\ slug[c] \in Slug /\ k \in {List, slug[c]}
             /\ <<<<c, version[c]>>, slug[c]>> \in shown
  <2>1. /\ c \in active /\ k \in {List, slug[c]}
        /\ <<<<c, version[c]>>, slug[c]>> \in shown
    BY DEF Categories!Active, Recorded
  <2>2. <<<<c, version[c]>>, slug[c]>> \in Categories!Row \X Slug
    BY <2>1 DEF Recorded
  <2>3. QED
    BY <2>1, <2>2
<1>2. \A row \in Categories!Current(k) : \E c \in Categories!Active(k) : row = <<c, version[c]>>
  BY DEF Categories!Current, Categories!Rows
<1>3. ASSUME NEW c \in Categories!Active(k), k # List
      PROVE  Categories!WasActive(<<c, version[c]>>, k)
  <2>1. c \in Categories!Active(k)
    BY <1>3
  <2>2. /\ <<c, version[c]>> \in Categories!Category \X (1 .. MaxCategoryWrites)
        /\ k \in {List, slug[c]} /\ <<<<c, version[c]>>, slug[c]>> \in shown
    BY <1>1, <2>1 DEF Categories!Row
  <2>3. version[c] \in 1 .. MaxCategoryWrites /\ MaxCategoryWrites \in Nat /\ slug[c] = k
    BY <1>3, <2>2, CategoryAssumptions DEF Categories!Assumptions
  <2>4. version[c] \in 1 .. version[c]
    BY <2>3
  <2>5. QED
    BY <2>2, <2>3, <2>4 DEF Categories!WasActive
<1>4. QED
  BY <1>1, <1>2, <1>3 DEF Shows

\* A category that was active under k still was when its row is loaded again.
LEMMA LoadedShows ==
    ASSUME Recorded, NEW k, k # List, NEW rows \in SUBSET Categories!Row, Shows(k, rows)
    PROVE  LET loaded == Categories!Rows({row[1] : row \in rows})
           IN  loaded \subseteq Categories!Row /\ Shows(k, loaded)
<1> DEFINE loaded == Categories!Rows({row[1] : row \in rows})
<1>1. ASSUME NEW row \in rows
      PROVE  /\ <<row[1], version[row[1]]>> \in Categories!Row
             /\ Categories!WasActive(<<row[1], version[row[1]]>>, k)
  <2>1. row[1] \in Categories!Category /\ row[2] \in Nat
    BY <1>1 DEF Categories!Row
  <2>2. PICK v \in 1 .. row[2] : <<<<row[1], v>>, k>> \in shown
    BY <1>1 DEF Shows, Categories!WasActive
  <2>3. v <= version[row[1]] /\ version[row[1]] \in 0 .. MaxCategoryWrites
    BY <2>1, <2>2 DEF Recorded
  <2>4. v \in 1 .. version[row[1]] /\ version[row[1]] \in 1 .. MaxCategoryWrites
    BY <2>1, <2>2, <2>3, CategoryAssumptions DEF Categories!Assumptions
  <2>5. QED
    BY <2>1, <2>2, <2>4 DEF Categories!Row, Categories!WasActive
<1>2. \A entry \in loaded : \E row \in rows : entry = <<row[1], version[row[1]]>>
  BY DEF Categories!Rows
<1> HIDE DEF loaded
<1>3. loaded \subseteq Categories!Row /\ Shows(k, loaded)
  BY <1>1, <1>2 DEF Shows
<1>4. QED
  BY <1>3 DEF loaded

\* What a query includes may be kept beside what it found: children are
\* active when they are loaded.
LEMMA IncludedShows ==
    ASSUME Tree, Recorded, NEW k, NEW rows \in SUBSET Categories!Row, Shows(k, rows)
    PROVE  /\ Categories!Included(k, rows) \subseteq Categories!Row
           /\ Shows(k, Categories!Included(k, rows))
<1>1. CASE k = List
  <2> DEFINE children == {c \in active : parent[c] \in {row[1] : row \in rows}}
  <2>1. Categories!Included(k, rows) = rows \cup Categories!Rows(children)
    BY <1>1 DEF Categories!Included
  <2>2. Categories!Rows(children) \subseteq Categories!Current(List)
    BY DEF Categories!Rows, Categories!Current, Categories!Active
  <2>3. Categories!Current(k) \subseteq Categories!Row /\ Shows(k, Categories!Current(k))
    BY CurrentShows
  <2> HIDE DEF children
  <2>4. QED
    BY <1>1, <2>1, <2>2, <2>3 DEF Shows
<1>2. CASE k # List
  <2>1. Categories!Included(k, rows) = Categories!Rows({row[1] : row \in rows})
    BY <1>2 DEF Categories!Included
  <2>2. QED
    BY <1>2, <2>1, LoadedShows
<1>3. QED
  BY <1>1, <1>2

\* What a handler writes: a row under a slug, or nothing.
LEMMA CategoryWrites ==
    ASSUME Tree, Known, NEW r \in Request, Categories!Query(r)
    PROVE  \/ UNCHANGED Categories!rowVars
           \/ /\ \E c \in Categories!Category, k \in Slug,
                    p \in Categories!Category \cup {None}, isActive \in BOOLEAN :
                    Categories!Write(c, k, p, isActive)
              /\ categoryPc[r] \in {"write", "delete.write"}
              /\ Categories!Goto(r, "del")
              /\ UNCHANGED <<categoryCache, categoryTtl>>
<1> USE CategoryAssumptions DEF Categories!Assumptions, Categories!cacheVars
<1>1. ASSUME NEW c \in Categories!Category, NEW isActive \in BOOLEAN,
             Categories!CreateWrite(r, c, isActive), ~UNCHANGED Categories!rowVars
      PROVE  /\ new[r] \in Slug
             /\ \E p \in Categories!Category \cup {None} :
                    Categories!Write(c, new[r], p, isActive)
             /\ Categories!Goto(r, "del")
  <2> DEFINE p == IF up[r] \in Categories!Category THEN up[r] ELSE None
  <2>1. new[r] \in Slug
    BY <1>1 DEF Known, Knows, Categories!CreateWrite
  <2>2. Categories!Write(c, new[r], p, isActive) /\ Categories!Goto(r, "del")
    BY <1>1 DEF Categories!CreateWrite
  <2>3. p \in Categories!Category \cup {None}
    OBVIOUS
  <2> HIDE DEF p
  <2>4. QED
    BY <2>1, <2>2, <2>3
<1>2. ASSUME NEW isActive \in BOOLEAN, Categories!UpdateWrite(r, isActive),
             ~UNCHANGED Categories!rowVars
      PROVE  /\ \E c \in Categories!Category, k \in Slug,
                   p \in Categories!Category \cup {None} :
                    Categories!Write(c, k, p, isActive)
             /\ Categories!Goto(r, "del")
  <2> DEFINE c == cat[r]
             k == IF new[r] = None THEN slug[c] ELSE new[r]
             p == IF up[r] = Categories!Absent THEN parent[c] ELSE up[r]
  <2>1. Categories!Write(c, k, p, isActive) /\ Categories!Goto(r, "del")
    BY <1>2 DEF Categories!UpdateWrite
  <2>2. c \in Categories!Category /\ Categories!Exists(c) /\ k \in Slug
    BY <1>2 DEF Known, Knows, Tree, Categories!UpdateWrite, Categories!Exists
  <2>3. p \in Categories!Category \cup {None}
    BY <2>2 DEF Known, Tree, Categories!ParentId
  <2> HIDE DEF c, k, p
  <2>4. QED
    BY <2>1, <2>2, <2>3
<1>3. CASE Categories!DeleteWrite(r)
  <2>1. cat[r] \in Categories!Category /\ slug[cat[r]] \in Slug
    BY <1>3 DEF Known, Knows, Tree, Categories!DeleteWrite, Categories!Exists
  <2>2. parent[cat[r]] \in Categories!Category \cup {None}
    BY <2>1 DEF Tree
  <2>3. /\ Categories!Write(cat[r], slug[cat[r]], parent[cat[r]], FALSE)
        /\ Categories!Goto(r, "del")
        /\ categoryPc[r] = "delete.write"
        /\ UNCHANGED <<categoryCache, categoryTtl>>
    BY <1>3 DEF Categories!DeleteWrite
  <2>4. QED
    BY <2>1, <2>2, <2>3
<1>4. QED
  BY <1>1, <1>2, <1>3 DEF Categories!Query, Categories!Find, Categories!Include,
     Categories!Found, Categories!Store, Categories!Del, Categories!UpdateConflict,
     Categories!ParentFind, Categories!CreateWrite, Categories!UpdateWrite

\* Keys go away.
LEMMA DropsKeys ==
    ASSUME Copied, shown' = shown, NEW keys,
           categoryCache' = [key \in DOMAIN categoryCache |->
                                IF key \in keys THEN None ELSE categoryCache[key]]
    PROVE  /\ Categories!OnlyActiveIsCached'
           /\ categoryCache' \in [Categories!Key -> (SUBSET Categories!Row) \cup {None}]
<1>1. DOMAIN categoryCache = Categories!Key
  BY DEF Copied
<1>2. ASSUME NEW k \in Categories!Key
      PROVE  categoryCache'[k] = None \/ categoryCache'[k] = categoryCache[k]
  BY <1>1
<1>3. Categories!OnlyActiveIsCached'
  BY <1>2 DEF Copied, Categories!OnlyActiveIsCached, Categories!WasActive, Categories!Key
<1>4. categoryCache' \in [Categories!Key -> (SUBSET Categories!Row) \cup {None}]
  BY <1>1, <1>2 DEF Copied
<1>5. QED
  BY <1>3, <1>4

\* A handler makes a query.
LEMMA CopiesQuery ==
    ASSUME Tree, Known, Recorded, Copied, NEW r \in Request, Categories!Query(r)
    PROVE  Recorded' /\ Copied'
<1> USE DEF Categories!Label
<1>1. shown \subseteq shown' /\ Recorded'
  <2>1. CASE UNCHANGED Categories!rowVars
    BY <2>1 DEF Recorded, Categories!rowVars
  <2>2. ASSUME NEW c \in Categories!Category, NEW k \in Slug,
               NEW p \in Categories!Category \cup {None}, NEW isActive \in BOOLEAN,
               Categories!Write(c, k, p, isActive)
        PROVE  shown \subseteq shown' /\ Recorded'
    BY <2>2, WriteRecorded
  <2>3. QED
    BY <2>1, <2>2, CategoryWrites
<1>2. ASSUME NEW q \in Request, q # r
      PROVE  categoryPc'[q] = categoryPc[q] /\ new'[q] = new[q] /\ val'[q] = val[q]
  BY <1>2 DEF Known, Copied, Categories!Query, Categories!Find, Categories!Include,
     Categories!Found, Categories!Store,
     Categories!UpdateConflict, Categories!ParentFind, Categories!CreateWrite,
     Categories!UpdateWrite, Categories!DeleteWrite, Categories!Del, Categories!Leave,
     Categories!Goto, Categories!localVars
<1>3. ASSUME NEW q \in Request, q # r
      PROVE  categoryPc'[q] \in {"include", "store"} => Shows(new[q], val[q])'
  BY <1>1, <1>2, <1>3 DEF Copied, Shows, Categories!WasActive
<1>4. ASSUME NEW label \in {"include", "store"}, NEW rows \in SUBSET Categories!Row,
              Categories!Found(r, label, rows), Shows(new[r], rows)
       PROVE  Recorded' /\ Copied'
  <2>1. /\ val' = [val EXCEPT ![r] = rows]
        /\ categoryPc' = [categoryPc EXCEPT ![r] = label]
        /\ UNCHANGED <<shown, new, categoryCache>>
    BY <1>4 DEF Categories!Found, Categories!rowVars, Categories!cacheVars
  <2>2. Shows(new[r], val[r])' /\ val' \in [Request -> SUBSET Categories!Row]
    BY <1>4, <2>1 DEF Copied, Shows, Categories!WasActive
  <2>3. Categories!OnlyActiveIsCached'
    BY <2>1 DEF Copied, Categories!OnlyActiveIsCached, Categories!WasActive, Categories!Key
  <2>4. QED
    BY <1>1, <1>3, <2>1, <2>2, <2>3 DEF Copied
<1>5. ASSUME Categories!Find(r) \/ Categories!Include(r)
      PROVE  Recorded' /\ Copied'
  <2>1. CASE Categories!Find(r)
    <3>1. /\ Categories!Current(new[r]) \in SUBSET Categories!Row
          /\ Shows(new[r], Categories!Current(new[r]))
      BY CurrentShows
    <3>2. Categories!Found(r, "include", Categories!Current(new[r]))
      BY <2>1 DEF Categories!Find
    <3>3. QED
      BY <1>4, <3>1, <3>2
  <2>2. CASE Categories!Include(r)
    <3> DEFINE rows == Categories!Included(new[r], val[r])
    <3>1. Shows(new[r], val[r]) /\ val[r] \in SUBSET Categories!Row
      BY <2>2 DEF Categories!Include, Copied
    <3>2. rows \in SUBSET Categories!Row /\ Shows(new[r], rows)
      BY <3>1, IncludedShows
    <3>3. Categories!Found(r, "store", rows)
      BY <2>2 DEF Categories!Include
    <3> HIDE DEF rows
    <3>4. QED
      BY <1>4, <3>2, <3>3
  <2>3. QED
    BY <1>5, <2>1, <2>2
<1>6. CASE Categories!Store(r)
  <2>1. /\ categoryCache' = [categoryCache EXCEPT ![new[r]] = val[r]]
        /\ categoryPc' = [categoryPc EXCEPT ![r] = "idle"]
        /\ val' = [val EXCEPT ![r] = {}]
        /\ shown' = shown
        /\ Shows(new[r], val[r]) /\ val[r] \in SUBSET Categories!Row
    BY <1>6 DEF Copied, Categories!Store, Categories!set, Categories!Leave,
       Categories!rowVars
  <2>2. Categories!OnlyActiveIsCached'
    BY <2>1 DEF Copied, Categories!OnlyActiveIsCached, Categories!WasActive,
       Categories!Key, Shows
  <2>3. categoryPc'[r] \notin {"include", "store"}
    BY <2>1 DEF Known
  <2>4. QED
    BY <1>1, <1>3, <2>1, <2>2, <2>3 DEF Copied
<1>7. CASE Categories!Del(r)
  <2>1. /\ categoryCache' = [key \in DOMAIN categoryCache |->
                                IF key \in {List} THEN None ELSE categoryCache[key]]
        /\ categoryPc' = [categoryPc EXCEPT ![r] = "idle"]
        /\ val' = [val EXCEPT ![r] = {}]
        /\ shown' = shown
    BY <1>7 DEF Categories!Del, Categories!del, Categories!delAll, Categories!Leave,
       Categories!rowVars
  <2>2. /\ Categories!OnlyActiveIsCached'
        /\ categoryCache' \in [Categories!Key -> (SUBSET Categories!Row) \cup {None}]
    BY <2>1, DropsKeys
  <2>3. /\ categoryPc'[r] \notin {"include", "store"}
        /\ val' \in [Request -> SUBSET Categories!Row]
    BY <2>1 DEF Known, Copied
  <2>4. QED
    BY <1>1, <1>3, <2>2, <2>3 DEF Copied
<1>8. CASE /\ ~Categories!Find(r) /\ ~Categories!Include(r)
           /\ ~Categories!Store(r) /\ ~Categories!Del(r)
  <2>1. UNCHANGED categoryCache
    BY <1>8 DEF Categories!Query, Categories!UpdateConflict, Categories!ParentFind,
       Categories!CreateWrite, Categories!UpdateWrite, Categories!DeleteWrite,
       Categories!cacheVars
  <2>2. Categories!OnlyActiveIsCached'
    BY <1>1, <2>1 DEF Copied, Categories!OnlyActiveIsCached, Categories!WasActive,
       Categories!Key
  <2>3. \/ Categories!Leave(r)
        \/ \E label \in {"parent.find", "write", "del"} : Categories!Goto(r, label)
    BY <1>8 DEF Categories!Query, Categories!UpdateConflict, Categories!ParentFind,
       Categories!CreateWrite, Categories!UpdateWrite, Categories!DeleteWrite,
       Categories!ParentOrWrite
  <2>4. /\ categoryPc'[r] \notin {"include", "store"}
        /\ val' \in [Request -> SUBSET Categories!Row]
    BY <2>3 DEF Known, Copied, Categories!Leave, Categories!Goto, Categories!localVars
  <2>5. QED
    BY <1>1, <1>3, <2>1, <2>2, <2>4 DEF Copied
<1>9. QED
  BY <1>5, <1>6, <1>7, <1>8

\* A request begins, handlers crash and keys expire: nothing new is shown.
LEMMA CopiesOtherwise ==
    ASSUME Known, Recorded, Copied,
           \/ \E r \in Request : Categories!Begin(r) \/ Categories!Abort(r)
           \/ \E k \in Categories!Key : Categories!Expire(k)
    PROVE  Recorded' /\ Copied'
<1> USE DEF Categories!Label
<1>1. UNCHANGED Categories!rowVars
  BY DEF Categories!Begin, Categories!Read, Categories!Create, Categories!Update,
     Categories!Delete, Categories!Abort, Categories!Expire
<1>2. Recorded' /\ shown' = shown
  BY <1>1 DEF Recorded, Categories!rowVars
<1>3. CASE \E k \in Categories!Key : Categories!Expire(k)
  <2>1. PICK k : Categories!delAll({k}) /\ UNCHANGED <<categoryPc, Categories!localVars>>
    BY <1>3 DEF Categories!Expire, Categories!expire, Categories!del
  <2>2. /\ Categories!OnlyActiveIsCached'
        /\ categoryCache' \in [Categories!Key -> (SUBSET Categories!Row) \cup {None}]
    BY <1>2, <2>1, DropsKeys DEF Categories!delAll
  <2>3. QED
    BY <1>2, <2>1, <2>2 DEF Copied, Shows, Categories!WasActive, Categories!localVars
<1>4. ASSUME NEW r \in Request, Categories!Begin(r)
      PROVE  Copied'
  <2>1. /\ val' = val
        /\ categoryCache' = categoryCache
        /\ \E k : \E label \in Categories!Label \ {"include", "store"} :
              /\ categoryPc[r] = "idle"
              /\ categoryPc' = [categoryPc EXCEPT ![r] = label]
              /\ new' = [new EXCEPT ![r] = k]
    BY <1>4 DEF Categories!Begin, Categories!Read, Categories!Create, Categories!Update,
       Categories!Delete, Categories!Enter, Categories!cacheVars, Categories!ParentOrWrite
  <2>2. QED
    BY <1>2, <2>1 DEF Known, Copied, Shows, Categories!OnlyActiveIsCached,
       Categories!WasActive, Categories!Key
<1>5. ASSUME NEW r \in Request, Categories!Abort(r)
      PROVE  Copied'
  <2>1. UNCHANGED <<categoryCache, shown>> /\ Categories!Leave(r)
    BY <1>2, <1>5 DEF Categories!Abort, Categories!cacheVars
  <2>2. Categories!OnlyActiveIsCached'
    BY <2>1 DEF Copied, Categories!OnlyActiveIsCached, Categories!WasActive, Categories!Key
  <2>3. ASSUME NEW q \in Request, categoryPc'[q] \in {"include", "store"}
        PROVE  Shows(new[q], val[q])'
    BY <2>1, <2>3 DEF Known, Copied, Shows, Categories!WasActive, Categories!Leave
  <2>4. QED
    BY <2>1, <2>2, <2>3 DEF Copied, Categories!Leave
<1>6. QED
  BY <1>2, <1>3, <1>4, <1>5

CopiesInv == subject = "categories" => Recorded /\ Copied

\* What is active and what is cached, or about to be, has been recorded.
THEOREM CopiesInvariant == Spec => []CopiesInv
<1> USE DEF CopiesInv
<1>1. Init => CopiesInv
  <2> SUFFICES ASSUME Categories!Init
               PROVE  Recorded /\ Copied
    BY DEF Init
  <2>1. Recorded
    BY CategoryAssumptions DEF Categories!Init, Categories!Assumptions, Recorded
  <2>2. Copied
    <3>1. /\ \A k \in Categories!Key : categoryCache[k] = None
          /\ \A r \in Request : categoryPc[r] = "idle"
      BY DEF Categories!Init, Categories!Key
    <3>2. Categories!OnlyActiveIsCached
      BY <3>1 DEF Categories!OnlyActiveIsCached, Categories!Key
    <3>3. /\ categoryCache \in [Categories!Key -> (SUBSET Categories!Row) \cup {None}]
          /\ val \in [Request -> SUBSET Categories!Row]
      BY DEF Categories!Init, Categories!Key
    <3>4. QED
      BY <3>1, <3>2, <3>3 DEF Copied
  <2>3. QED
    BY <2>1, <2>2
<1>2. TreeInv /\ CopiesInv /\ [Next]_vars => CopiesInv'
  <2> SUFFICES ASSUME TreeInv, CopiesInv, [Next]_vars, subject' = "categories"
               PROVE  (Recorded /\ Copied)'
    OBVIOUS
  <2>1. CASE About("categories") /\ Categories!Next
    <3>1. Tree /\ Known /\ Recorded /\ Copied
      BY <2>1 DEF About, TreeInv
    <3>2. ASSUME NEW r \in Request, Categories!Step(r)
          PROVE  Recorded' /\ Copied'
      BY <3>1, <3>2, CopiesQuery DEF Categories!Step
    <3>3. CASE \/ \E r \in Request : Categories!Arrive(r) \/ Categories!Abort(r)
               \/ \E k \in Categories!Key : Categories!Expire(k)
      BY <3>1, <3>3, CopiesOtherwise DEF Categories!Arrive
    <3>4. QED
      BY <2>1, <3>2, <3>3 DEF Categories!Next
  <2>2. CASE UNCHANGED <<subject, categoryVars>>
    BY <2>2 DEF categoryVars, Recorded, Copied, Shows, Categories!OnlyActiveIsCached,
       Categories!WasActive, Categories!Key
  <2>3. QED
    BY <2>1, <2>2 DEF Next, About, vars
<1>3. QED
  BY <1>1, <1>2, TreeInvariant, PTL DEF Spec

\* However reads overlap with drafts, renames and deactivations, and whatever
\* expires or crashes, the cached list shows a category only in a version in
\* which it was active, and a cached feed only a category that had been active
\* under its slug: also when it is renamed or deactivated between the two
\* statements that read the feed.
THEOREM CopiesWereActive == Spec => []OnlyActiveIsCached
<1>1. CopiesInv => OnlyActiveIsCached
  BY DEF CopiesInv, Copied, OnlyActiveIsCached
<1>2. QED
  BY <1>1, CopiesInvariant, PTL

-----------------------------------------------------------------------------
(* The list between requests.                                              *)

\* As long as no handlers have overlapped or crashed: at most one is at work,
\* the list a reader is about to store is the list, and the copy in Redis is
\* fresh unless a writer is about to delete it.
ListInStep ==
    categorySerial =>
        /\ \A q, r \in Request : categoryPc[q] # "idle" /\ categoryPc[r] # "idle" => q = r
        /\ \A r \in Request : categoryPc[r] \in {"include", "store"} /\ new[r] = List =>
                                  val[r] = Categories!Current(List)
        /\ Categories!Fresh(List) \/ \E r \in Request : categoryPc[r] = "del"

\* Where no row changes, the list does not.
LEMMA SameList ==
    ASSUME UNCHANGED Categories!rowVars
    PROVE  Categories!Current(List)' = Categories!Current(List)
BY DEF Categories!rowVars, Categories!Current, Categories!Rows, Categories!Active

\* The one handler at work makes a query.
LEMMA ListQuery ==
    ASSUME Tree, Known, Copied, ListInStep, categorySerial, NEW r \in Request,
           Categories!Query(r)
    PROVE  ListInStep'
<1> USE DEF Categories!Label
<1>1. categoryPc[r] # "idle"
  BY DEF Categories!Query, Categories!Find, Categories!Include, Categories!Store,
     Categories!UpdateConflict, Categories!ParentFind, Categories!CreateWrite, Categories!UpdateWrite,
     Categories!DeleteWrite, Categories!Del
<1>2. \A q \in Request : q # r => categoryPc[q] = "idle"
  BY <1>1 DEF ListInStep
<1>3. \A q \in Request : q # r => categoryPc'[q] = "idle"
  BY <1>2 DEF Known, Categories!Query, Categories!Find, Categories!Include,
     Categories!Found, Categories!Store, Categories!UpdateConflict, Categories!ParentFind, Categories!CreateWrite,
     Categories!UpdateWrite, Categories!DeleteWrite, Categories!Del, Categories!Leave,
     Categories!Goto
<1>4. List \in DOMAIN categoryCache /\ List \in Categories!Key
  BY DEF Copied, Categories!Key
<1>5. CASE Categories!Goto(r, "del")
  <2>1. categoryPc'[r] = "del"
    BY <1>5 DEF Known, Categories!Goto
  <2>2. QED
    BY <1>3, <2>1 DEF ListInStep
<1>6. CASE UNCHANGED Categories!rowVars /\ ~Categories!Goto(r, "del")
  <2>1. Categories!Current(List)' = Categories!Current(List)
    BY <1>6, SameList
  <2>2. categoryPc[r] # "del" => Categories!Fresh(List)
    BY <1>2 DEF ListInStep
  <2>3. CASE Categories!Find(r) \/ Categories!Include(r)
    <3>1. /\ categoryPc[r] \in {"find", "include"}
          /\ UNCHANGED <<new, categoryCache>>
      BY <2>3 DEF Categories!Find, Categories!Include, Categories!Found, Categories!cacheVars
    <3>2. ASSUME Categories!Include(r), new[r] = List
          PROVE  Categories!Included(List, val[r]) = Categories!Current(List)
      <4>1. val[r] = Categories!Current(List)
        BY <3>2 DEF Categories!Include, ListInStep
      <4>2. Categories!Rows({c \in active : parent[c] \in {row[1] : row \in val[r]}})
                \subseteq Categories!Current(List)
        BY DEF Categories!Rows, Categories!Current, Categories!Active
      <4>3. QED
        BY <4>1, <4>2 DEF Categories!Included
    <3>3. new'[r] = List => val'[r] = Categories!Current(List)
      BY <2>3, <3>1, <3>2 DEF Copied, Categories!Find, Categories!Include, Categories!Found
    <3>4. Categories!Fresh(List)'
      BY <2>1, <2>2, <3>1 DEF Categories!Fresh
    <3>5. QED
      BY <1>3, <2>1, <3>3, <3>4 DEF ListInStep
  <2>4. CASE Categories!Store(r)
    <3>1. /\ categoryPc[r] = "store" /\ categoryPc'[r] = "idle"
          /\ categoryCache' = [categoryCache EXCEPT ![new[r]] = val[r]]
      BY <2>4 DEF Known, Categories!Store, Categories!set, Categories!Leave
    <3>2. new[r] = List => val[r] = Categories!Current(List)
      BY <3>1 DEF ListInStep
    <3>3. categoryCache'[List] = IF new[r] = List THEN val[r] ELSE categoryCache[List]
      BY <1>4, <3>1
    <3>4. Categories!Fresh(List)'
      BY <2>1, <2>2, <3>1, <3>2, <3>3 DEF Categories!Fresh
    <3>5. QED
      BY <1>3, <3>1, <3>4 DEF ListInStep
  <2>5. CASE Categories!Del(r)
    <3>1. categoryPc'[r] = "idle" /\ categoryCache'[List] = None
      BY <1>4, <2>5 DEF Known, Categories!Del, Categories!del, Categories!delAll,
         Categories!Leave
    <3>2. Categories!Fresh(List)'
      BY <3>1 DEF Categories!Fresh
    <3>3. QED
      BY <1>3, <3>1, <3>2 DEF ListInStep
  <2>6. CASE /\ ~Categories!Find(r) /\ ~Categories!Include(r)
             /\ ~Categories!Store(r) /\ ~Categories!Del(r)
    <3>1. /\ categoryPc[r] # "del"
          /\ UNCHANGED categoryCache
          /\ \/ Categories!Leave(r)
             \/ \E label \in {"parent.find", "write"} : Categories!Goto(r, label)
      BY <1>6, <2>6 DEF Categories!Query, Categories!UpdateConflict, Categories!ParentFind,
         Categories!CreateWrite, Categories!UpdateWrite, Categories!DeleteWrite,
         Categories!ParentOrWrite, Categories!cacheVars
    <3>2. categoryPc'[r] \notin {"include", "store"}
      BY <3>1 DEF Known, Categories!Leave, Categories!Goto
    <3>3. Categories!Fresh(List)'
      BY <2>1, <2>2, <3>1 DEF Categories!Fresh
    <3>4. QED
      BY <1>3, <3>2, <3>3 DEF ListInStep
  <2>7. QED
    BY <2>3, <2>4, <2>5, <2>6
<1>7. QED
  BY <1>5, <1>6, CategoryWrites

\* A request begins: nobody else is at work, or handlers overlap from now on.
LEMMA ListArrive ==
    ASSUME Known, Copied, ListInStep, NEW r \in Request, Categories!Arrive(r)
    PROVE  ListInStep'
<1> SUFFICES ASSUME categorySerial'
             PROVE  ListInStep'
  BY DEF ListInStep
<1>1. \A q \in Request : categoryPc[q] = "idle"
  BY DEF Categories!Arrive
<1>2. Categories!Fresh(List)
  BY <1>1 DEF ListInStep, Categories!Arrive
<1>3. /\ UNCHANGED <<Categories!rowVars, categoryCache>>
      /\ \E label \in Categories!Label \ {"include", "store"} :
            categoryPc' = [categoryPc EXCEPT ![r] = label]
  BY DEF Categories!Arrive, Categories!Begin, Categories!Read, Categories!Create,
     Categories!Update, Categories!Delete, Categories!Enter, Categories!cacheVars,
     Categories!ParentOrWrite, Categories!Label
<1>4. Categories!Fresh(List)'
  BY <1>2, <1>3, SameList DEF Categories!Fresh
<1>5. /\ \A q \in Request : q # r => categoryPc'[q] = "idle"
      /\ categoryPc'[r] \notin {"include", "store"}
  BY <1>1, <1>3 DEF Known
<1>6. QED
  BY <1>4, <1>5 DEF ListInStep

ListInv == subject = "categories" => ListInStep

\* While handlers do not overlap or crash, the list waits for a delete or is
\* fresh.
THEOREM ListInvariant == Spec => []ListInv
<1> USE DEF ListInv
<1>1. Init => ListInv
  BY DEF Init, Categories!Init, ListInStep, Categories!Fresh, Categories!Key
<1>2. TreeInv /\ CopiesInv /\ ListInv /\ [Next]_vars => ListInv'
  <2> SUFFICES ASSUME TreeInv, CopiesInv, ListInv, [Next]_vars, subject' = "categories"
               PROVE  ListInStep'
    OBVIOUS
  <2>1. CASE About("categories") /\ Categories!Next
    <3>1. Tree /\ Known /\ Copied /\ ListInStep
      BY <2>1 DEF About, TreeInv, CopiesInv
    <3>2. ASSUME NEW r \in Request, Categories!Step(r)
          PROVE  ListInStep'
      <4>1. CASE categorySerial
        BY <3>1, <3>2, <4>1, ListQuery DEF Categories!Step
      <4>2. CASE ~categorySerial
        BY <3>2, <4>2 DEF Categories!Step, ListInStep
      <4>3. QED
        BY <4>1, <4>2
    <3>3. ASSUME NEW r \in Request, Categories!Arrive(r)
          PROVE  ListInStep'
      BY <3>1, <3>3, ListArrive
    <3>4. CASE \E r \in Request : Categories!Abort(r)
      BY <3>4 DEF Categories!Abort, ListInStep
    <3>5. CASE \E k \in Categories!Key : Categories!Expire(k)
      <4>1. /\ UNCHANGED <<Categories!rowVars, categoryPc, new, val, categorySerial>>
            /\ categoryCache'[List] \in {None, categoryCache[List]}
        BY <3>1, <3>5 DEF Categories!Expire, Categories!expire, Categories!del,
           Categories!delAll, Categories!localVars, Copied, Categories!Key
      <4>2. Categories!Fresh(List) => Categories!Fresh(List)'
        BY <4>1, SameList DEF Categories!Fresh
      <4>3. QED
        BY <3>1, <4>1, <4>2, SameList DEF ListInStep
    <3>6. QED
      BY <2>1, <3>2, <3>3, <3>4, <3>5 DEF Categories!Next
  <2>2. CASE UNCHANGED <<subject, categoryVars>>
    BY <2>2 DEF categoryVars, ListInStep, Categories!Fresh, Categories!Current,
       Categories!Rows, Categories!Active
  <2>3. QED
    BY <2>1, <2>2 DEF Next, About, vars
<1>3. QED
  BY <1>1, <1>2, TreeInvariant, CopiesInvariant, PTL DEF Spec

\* Handlers that do not overlap or crash leave the cached list as it is in the
\* database, or absent; no writer forgets to delete it.
THEOREM ListIsFreshBetweenRequests == Spec => []ListFreshBetweenRequests
<1>1. ListInv => ListFreshBetweenRequests
  BY DEF ListInv, ListInStep, ListFreshBetweenRequests, Categories!ListFreshBetweenRequests
<1>2. QED
  BY <1>1, ListInvariant, PTL
=============================================================================
