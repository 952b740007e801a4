----------------------------- MODULE ServicesProofs ----------------------------
(***************************************************************************)
(* Proofs about Services, for any number of notifications, users, push     *)
(* tokens and handlers: what an answer about a notification promises, and  *)
(* what the array of push tokens holds; and the types of all four parts.   *)
(***************************************************************************)
EXTENDS CategoriesProofs, FeedPagesProofs

-----------------------------------------------------------------------------
(* Notifications.                                                          *)

\* What AnsweredIsRead rests on: handlers know who asks, and about what.
Asked ==
    /\ noticePc \in [Request -> Notices!Label]
    /\ user \in [Request -> User \cup {Nobody}]
    /\ id \in [Request -> Notice \cup {All}]
    /\ Notices!AnsweredIsRead

\* Whatever a handler does, Asked holds of it and of the others.
LEMMA NoticeStep ==
    ASSUME Asked, Notices!Next
    PROVE  Asked'
<1> USE DEF Asked, Notices!AnsweredIsRead, Notices!Label, Notices!Owned
<1>1. PICK r \in Request :
        \/ \E u \in User, n \in Notice : Notices!MarkAsRead(r, u, n)
        \/ \E u \in User : Notices!MarkAllAsRead(r, u) \/ Notices!GetNotifications(r, u)
        \/ Notices!Mark(r) \/ Notices!Answer(r)
        \/ Notices!FindByUser(r) \/ Notices!CountUnread(r) \/ Notices!ListAnswer(r)
        \/ Notices!Abort(r)
  BY DEF Notices!Next
<1>2. CASE \E u \in User, n \in Notice : Notices!MarkAsRead(r, u, n)
  BY <1>2 DEF Notices!MarkAsRead, Notices!Enter
<1>3. CASE \E u \in User : Notices!MarkAllAsRead(r, u) \/ Notices!GetNotifications(r, u)
  BY <1>3 DEF Notices!MarkAllAsRead, Notices!GetNotifications, Notices!Enter
<1>4. CASE Notices!Mark(r)
  BY <1>4 DEF Notices!Mark, Notices!Markable
<1>5. CASE Notices!Answer(r) \/ Notices!ListAnswer(r) \/ Notices!Abort(r)
  BY <1>5 DEF Notices!Answer, Notices!ListAnswer, Notices!Abort, Notices!Leave
<1>6. CASE Notices!FindByUser(r) \/ Notices!CountUnread(r)
  BY <1>6 DEF Notices!FindByUser, Notices!CountUnread
<1>7. QED
  BY <1>1, <1>2, <1>3, <1>4, <1>5, <1>6

AskedInv == subject = "notices" => Asked

\* Handlers of notifications know who asks, and about what.
THEOREM AskedInvariant == Spec => []AskedInv
<1> USE DEF AskedInv
<1>1. Init => AskedInv
  BY DEF Init, Notices!Init, Asked, Notices!AnsweredIsRead, Notices!Label
<1>2. AskedInv /\ [Next]_vars => AskedInv'
  <2> SUFFICES ASSUME AskedInv, [Next]_vars, subject' = "notices"
               PROVE  Asked'
    OBVIOUS
  <2>1. CASE About("notices") /\ Notices!Next
    BY <2>1, NoticeStep DEF About
  <2>2. CASE UNCHANGED <<subject, noticeVars>>
    BY <2>2 DEF noticeVars, Asked, Notices!AnsweredIsRead, Notices!Owned
  <2>3. QED
    BY <2>1, <2>2 DEF Next, About, vars
<1>3. QED
  BY <1>1, <1>2, PTL DEF Spec

\* Every answer about a notification of one's own, "not found" too, means that
\* it is read, whatever other handlers of the user do meanwhile and however
\* often a client that lost an answer asks again.
THEOREM AnsweredNoticesAreRead == Spec => []AnsweredIsRead
<1>1. AskedInv => AnsweredIsRead
  BY DEF AskedInv, Asked, AnsweredIsRead
<1>2. QED
  BY <1>1, AskedInvariant, PTL

-----------------------------------------------------------------------------
(* Listings of notifications.                                              *)

\* The instance's copies of the operators on finite sets are the library's.
LEMMA SameOperators ==
    ASSUME NEW S
    PROVE  /\ Notices!IsFiniteSet(S) <=> IsFiniteSet(S)
           /\ Notices!Cardinality(S) = Cardinality(S)
BY DEF Notices!IsFiniteSet, IsFiniteSet, Notices!Cardinality, Cardinality

UnreadNow(r) == Notices!Owned(user[r]) \ read

\* What a listing knows: the unread rows only become fewer, so what a query
\* found lies between what was unread at the beginning and what is now.
InTime(r) ==
    /\ UnreadNow(r) \subseteq before[r]
    /\ before[r] \subseteq Notice
    /\ "page" \in listed[r] =>
          /\ Notices!findByUser(user[r]) \cap UnreadNow(r) \subseteq found[r]
          /\ found[r] \subseteq Notices!findByUser(user[r]) \cap before[r]
    /\ "count" \in listed[r] =>
          \E counted \in SUBSET before[r] :
              UnreadNow(r) \subseteq counted /\ count[r] = Cardinality(counted)

ListingsInTime ==
    /\ noticePc \in [Request -> Notices!Label]
    /\ user \in [Request -> User \cup {Nobody}]
    /\ count \in [Request -> Nat]
    /\ found \in [Request -> SUBSET Notice]
    /\ listed \in [Request -> SUBSET {"page", "count"}]
    /\ before \in [Request -> SUBSET Notice]
    /\ \A r \in Request : noticePc[r] = "idle" => listed[r] = {}
    /\ \A r \in Request : noticePc[r] = "list" => InTime(r)

\* What others do only makes fewer rows unread.
LEMMA OthersMark ==
    ASSUME NEW r \in Request, InTime(r), read \subseteq read',
           UNCHANGED <<user[r], count[r], found[r], listed[r], before[r]>>
    PROVE  InTime(r)'
BY DEF InTime, UnreadNow, Notices!Owned, Notices!findByUser

\* Whatever a handler does, what the listings at work know stays true.
LEMMA ListingStep ==
    ASSUME ListingsInTime, Notices!Next
    PROVE  ListingsInTime'
<1> USE NoticeAssumptions DEF Notices!Assumptions, ListingsInTime, Notices!Label,
        Notices!historyVars
<1>1. PICK r \in Request :
        \/ \E u \in User, n \in Notice : Notices!MarkAsRead(r, u, n)
        \/ \E u \in User : Notices!MarkAllAsRead(r, u) \/ Notices!GetNotifications(r, u)
        \/ Notices!Mark(r) \/ Notices!Answer(r)
        \/ Notices!FindByUser(r) \/ Notices!CountUnread(r) \/ Notices!ListAnswer(r)
        \/ Notices!Abort(r)
  BY DEF Notices!Next
<1>2. \A u : Notices!Owned(u) \subseteq Notice /\ IsFiniteSet(Notices!Owned(u) \ read)
             /\ IsFiniteSet(Notices!Markable(u, id[r]))
  <2>1. \A S \in SUBSET Notice : IsFiniteSet(S)
    BY FS_Subset, SameOperators
  <2>2. QED
    BY <2>1 DEF Notices!Owned, Notices!Markable
<1>3. read \subseteq read'
  BY <1>1 DEF Notices!MarkAsRead, Notices!MarkAllAsRead, Notices!GetNotifications,
     Notices!Enter, Notices!Mark, Notices!Answer, Notices!FindByUser,
     Notices!CountUnread, Notices!ListAnswer, Notices!Abort
<1>4. ASSUME \A q \in Request \ {r} :
                 UNCHANGED <<noticePc[q], user[q], count[q], found[q], listed[q], before[q]>>
      PROVE  \A q \in Request \ {r} : noticePc'[q] = "list" => InTime(q)'
  BY <1>3, <1>4, OthersMark
<1>5. ASSUME NEW label \in {"mark", "list"}, NEW u \in User, NEW n \in Notice \cup {All},
             Notices!Enter(r, label, u, n)
      PROVE  ListingsInTime'
  <2>1. \A q \in Request \ {r} : noticePc'[q] = "list" => InTime(q)'
    BY <1>4, <1>5 DEF Notices!Enter
  <2>2. noticePc'[r] = "list" => InTime(r)'
    BY <1>2, <1>5 DEF Notices!Enter, InTime, UnreadNow, Notices!Owned
  <2>3. QED
    BY <1>2, <1>5, <2>1, <2>2 DEF Notices!Enter
<1>6. CASE Notices!Answer(r) \/ Notices!ListAnswer(r) \/ Notices!Abort(r)
  <2>1. Notices!Leave(r)
    BY <1>6 DEF Notices!Answer, Notices!ListAnswer, Notices!Abort
  <2>2. \A q \in Request \ {r} : noticePc'[q] = "list" => InTime(q)'
    BY <1>4, <2>1 DEF Notices!Leave
  <2>3. QED
    BY <2>1, <2>2 DEF Notices!Leave
<1>7. CASE Notices!Mark(r)
  <2>1. \A q \in Request \ {r} : noticePc'[q] = "list" => InTime(q)'
    BY <1>4, <1>7 DEF Notices!Mark
  <2>2. Cardinality(Notices!Markable(user[r], id[r])) \in Nat
    BY <1>2, FS_CardinalityType
  <2>3. /\ noticePc' = [noticePc EXCEPT ![r] = "answer"]
        /\ count' = [count EXCEPT ![r] = Cardinality(Notices!Markable(user[r], id[r]))]
        /\ UNCHANGED <<user, found, listed, before>>
    BY <1>7, SameOperators DEF Notices!Mark
  <2>4. QED
    BY <2>1, <2>2, <2>3
<1>8. CASE Notices!FindByUser(r)
  <2>1. \A q \in Request \ {r} : noticePc'[q] = "list" => InTime(q)'
    BY <1>4, <1>8 DEF Notices!FindByUser
  <2>2. InTime(r) /\ Notices!findByUser(user[r]) \subseteq Notice
    BY <1>2, <1>8 DEF Notices!FindByUser, Notices!findByUser
  <2>3. InTime(r)'
    BY <1>8, <2>2 DEF Notices!FindByUser, InTime, UnreadNow, Notices!Owned,
       Notices!findByUser
  <2>4. QED
    BY <1>8, <2>1, <2>2, <2>3 DEF Notices!FindByUser
<1>9. CASE Notices!CountUnread(r)
  <2>1. \A q \in Request \ {r} : noticePc'[q] = "list" => InTime(q)'
    BY <1>4, <1>9 DEF Notices!CountUnread
  <2>2. InTime(r)
    BY <1>9 DEF Notices!CountUnread
  <2>3. /\ UnreadNow(r) = Notices!countUnread(user[r])
        /\ Cardinality(UnreadNow(r)) \in Nat
    BY <1>2, FS_CardinalityType DEF UnreadNow, Notices!countUnread
  <2>4. InTime(r)'
    <3>1. /\ count'[r] = Cardinality(UnreadNow(r))
          /\ listed'[r] = listed[r] \cup {"count"}
          /\ UNCHANGED <<read, user, found, before>>
      BY <1>9, <2>3, SameOperators DEF Notices!CountUnread
    <3>2. /\ UnreadNow(r)' = UnreadNow(r)
          /\ Notices!findByUser(user[r])' = Notices!findByUser(user[r])
      BY <3>1 DEF UnreadNow, Notices!Owned, Notices!findByUser
    <3>3. QED
      BY <2>2, <3>1, <3>2 DEF InTime
  <2>5. count' = [count EXCEPT ![r] = Cardinality(UnreadNow(r))]
    BY <1>9, <2>3, SameOperators DEF Notices!CountUnread
  <2>6. QED
    BY <1>9, <2>1, <2>3, <2>4, <2>5 DEF Notices!CountUnread
<1>10. QED
  BY <1>1, <1>5, <1>6, <1>7, <1>8, <1>9 DEF Notices!MarkAsRead, Notices!MarkAllAsRead,
     Notices!GetNotifications

ListingsInv == subject = "notices" => ListingsInTime

\* What a listing has found is of its time already while it is at work.
THEOREM ListingsInvariant == Spec => []ListingsInv
<1> USE DEF ListingsInv
<1>1. Init => ListingsInv
  BY DEF Init, Notices!Init, ListingsInTime, Notices!Label
<1>2. ListingsInv /\ [Next]_vars => ListingsInv'
  <2> SUFFICES ASSUME ListingsInv, [Next]_vars, subject' = "notices"
               PROVE  ListingsInTime'
    OBVIOUS
  <2>1. CASE About("notices") /\ Notices!Next
    BY <2>1, ListingStep DEF About
  <2>2. CASE UNCHANGED <<subject, noticeVars>>
    BY <2>2 DEF noticeVars, ListingsInTime, InTime, UnreadNow, Notices!Owned,
       Notices!findByUser
  <2>3. QED
    BY <2>1, <2>2 DEF Next, About, vars
<1>3. QED
  BY <1>1, <1>2, PTL DEF Spec

\* The page and the unread count of a listing come from two queries, and marks
\* between them make them disagree; yet each lies between what was unread when
\* the listing began and what is unread when it answers.
THEOREM ListingsAreOfTheirTime == Spec => []ListingIsOfItsTime
<1>1. ListingsInv => ListingIsOfItsTime
  <2> SUFFICES ASSUME ListingsInTime, NEW r \in Request, Notices!Listed(r)
               PROVE  /\ count[r] \in Cardinality(UnreadNow(r)) .. Cardinality(before[r])
                      /\ Notices!findByUser(user[r]) \cap UnreadNow(r) \subseteq found[r]
                      /\ found[r] \subseteq Notices!findByUser(user[r]) \cap before[r]
    BY SameOperators DEF ListingsInv, ListingIsOfItsTime, Notices!ListingIsOfItsTime,
       UnreadNow
  <2>1. InTime(r) /\ listed[r] = {"page", "count"}
    BY DEF ListingsInTime, Notices!Listed
  <2>2. PICK counted \in SUBSET before[r] :
            UnreadNow(r) \subseteq counted /\ count[r] = Cardinality(counted)
    BY <2>1 DEF InTime
  <2>3. IsFiniteSet(before[r])
    <3>1. IsFiniteSet(Notice) /\ before[r] \subseteq Notice
      BY <2>1, NoticeAssumptions, SameOperators DEF Notices!Assumptions, InTime
    <3>2. QED
      BY <3>1, FS_Subset
  <2>4. IsFiniteSet(counted) /\ Cardinality(counted) <= Cardinality(before[r])
    BY <2>2, <2>3, FS_Subset
  <2>5. IsFiniteSet(UnreadNow(r)) /\ Cardinality(UnreadNow(r)) <= Cardinality(counted)
    BY <2>2, <2>4, FS_Subset
  <2>6. count[r] \in Cardinality(UnreadNow(r)) .. Cardinality(before[r])
    BY <2>2, <2>3, <2>4, <2>5, FS_CardinalityType
  <2>7. QED
    BY <2>1, <2>6 DEF InTime, UnreadNow
<1>2. QED
  BY <1>1, ListingsInvariant, PTL

-----------------------------------------------------------------------------
(* Who is told of a mark.                                                  *)

\* The marks in the hands of r.
Marks(r, n) == {r} \X (1 .. n)

\* There are as many as the count says.
LEMMA MarksCounted ==
    ASSUME NEW r, NEW n \in Nat
    PROVE  IsFiniteSet(Marks(r, n)) /\ Cardinality(Marks(r, n)) = n
<1>1. IsFiniteSet({r}) /\ Cardinality({r}) = 1
  BY FS_Singleton
<1>2. IsFiniteSet(1 .. n) /\ Cardinality(1 .. n) = n
  BY FS_Interval
<1>3. /\ IsFiniteSet({r} \X (1 .. n))
      /\ Cardinality({r} \X (1 .. n)) = Cardinality({r}) * Cardinality(1 .. n)
  BY <1>1, <1>2, FS_Product
<1>4. QED
  BY <1>1, <1>2, <1>3 DEF Marks

\* Two sets that have nothing in common are counted one after the other.
LEMMA CountedApart ==
    ASSUME NEW S, NEW T, IsFiniteSet(S), IsFiniteSet(T), S \cap T = {}
    PROVE  /\ IsFiniteSet(S \cup T)
           /\ Cardinality(S) \in Nat /\ Cardinality(T) \in Nat
           /\ Cardinality(S \cup T) = Cardinality(S) + Cardinality(T)
<1>1. /\ Cardinality(S) \in Nat /\ Cardinality(T) \in Nat
      /\ IsFiniteSet(S \cup T)
      /\ Cardinality(S \cup T) = Cardinality(S) + Cardinality(T) - Cardinality(S \cap T)
  BY FS_Union, FS_CardinalityType
<1>2. Cardinality(S \cap T) = 0
  BY FS_EmptySet
<1>3. QED
  BY <1>1, <1>2

MarkedOf(u) == Notices!Owned(u) \cap read

\* What MarksAreToldOnce rests on.
Told ==
    /\ read \subseteq Notice
    /\ noticePc \in [Request -> Notices!Label]
    /\ user \in [Request -> User \cup {Nobody}]
    /\ count \in [Request -> 0 .. Cardinality(Notice)]
    /\ told \in [User -> Nat]
    /\ lost \in [User -> Nat]
    /\ \A r \in Request : noticePc[r] # "idle" => user[r] \in User
    /\ \A u \in User :
          /\ IsFiniteSet(Notices!InFlight(u))
          /\ Cardinality(MarkedOf(u)) = told[u] + lost[u] + Cardinality(Notices!InFlight(u))

\* There are finitely many notifications, however they are counted.
LEMMA NoticesFinite ==
    /\ IsFiniteSet(Notice) /\ Cardinality(Notice) \in Nat
    /\ Notices!Cardinality(Notice) = Cardinality(Notice)
    /\ \A S \in SUBSET Notice :
          IsFiniteSet(S) /\ Cardinality(S) \in 0 .. Cardinality(Notice)
<1>1. IsFiniteSet(Notice)
  BY NoticeAssumptions, SameOperators DEF Notices!Assumptions
<1>2. QED
  BY <1>1, SameOperators, FS_Subset, FS_CardinalityType

\* What the other handlers have in hand, when only r changes.
LEMMA InFlightApart ==
    ASSUME NEW r \in Request, NEW u \in User,
           \A q \in Request \ {r} :
               noticePc'[q] = noticePc[q] /\ user'[q] = user[q] /\ count'[q] = count[q]
    PROVE  \A m : m[1] # r => (m \in Notices!InFlight(u)' <=> m \in Notices!InFlight(u))
BY SameOperators DEF Notices!InFlight

\* A mark is made: it is on its way to its user.
LEMMA MarkTold ==
    ASSUME Told, NEW r \in Request, Notices!Mark(r)
    PROVE  Told'
<1> USE DEF Notices!Label
<1> DEFINE v == user[r]
           rows == Notices!Markable(v, id[r])
           n == Cardinality(rows)
<1>1. /\ noticePc[r] = "mark" /\ v \in User
      /\ noticePc' = [noticePc EXCEPT ![r] = "answer"]
      /\ read' = read \cup rows
      /\ count' = [count EXCEPT ![r] = n]
      /\ UNCHANGED <<user, told, lost>>
  BY SameOperators DEF Told, Notices!Mark, Notices!historyVars
<1>2. rows \subseteq Notices!Owned(v) \ read /\ Notices!Owned(v) \subseteq Notice
  BY DEF Notices!Markable, Notices!Owned
<1>3. n \in 0 .. Cardinality(Notice)
  BY <1>2, NoticesFinite
<1>4. \A u : MarkedOf(u)' = IF u = v THEN MarkedOf(u) \cup rows ELSE MarkedOf(u)
  BY <1>1, <1>2 DEF MarkedOf, Notices!Owned
<1>5. Cardinality(MarkedOf(v) \cup rows) = Cardinality(MarkedOf(v)) + n
  <2>1. /\ IsFiniteSet(MarkedOf(v)) /\ IsFiniteSet(rows)
        /\ MarkedOf(v) \cap rows = {}
    BY <1>2, NoticesFinite DEF MarkedOf, Notices!Owned
  <2>2. QED
    BY <2>1, CountedApart
<1>6. \A u \in User : Notices!InFlight(u)' = IF u = v THEN Notices!InFlight(u) \cup Marks(r, n)
                                                     ELSE Notices!InFlight(u)
  <2> HIDE DEF n
  <2> TAKE u \in User
  <2>1. \A m : m[1] # r => (m \in Notices!InFlight(u)' <=> m \in Notices!InFlight(u))
    BY <1>1, InFlightApart
  <2>2. \A m : m \in Notices!InFlight(u) => m[1] # r
    BY <1>1 DEF Notices!InFlight
  <2>3. \A m \in Request \X (1 .. Cardinality(Notice)) : m[1] = r =>
            (m \in Notices!InFlight(u)' <=> u = v /\ m \in Marks(r, n))
    BY <1>1, <1>3, NoticesFinite DEF Told, Notices!InFlight, Marks
  <2>4. /\ Notices!InFlight(u) \subseteq Request \X (1 .. Cardinality(Notice))
        /\ Notices!InFlight(u)' \subseteq Request \X (1 .. Cardinality(Notice))
        /\ Marks(r, n) \subseteq Request \X (1 .. Cardinality(Notice))
        /\ \A m \in Marks(r, n) : m[1] = r
    BY <1>3, NoticesFinite DEF Notices!InFlight, Marks
  <2>5. QED
    BY <2>1, <2>2, <2>3, <2>4
<1>7. /\ IsFiniteSet(Notices!InFlight(v) \cup Marks(r, n))
      /\ Cardinality(Notices!InFlight(v) \cup Marks(r, n)) =
            Cardinality(Notices!InFlight(v)) + n
      /\ Cardinality(Notices!InFlight(v)) \in Nat
  <2>1. IsFiniteSet(Notices!InFlight(v))
    BY <1>1 DEF Told
  <2>2. Notices!InFlight(v) \cap Marks(r, n) = {}
    BY <1>1 DEF Notices!InFlight, Marks
  <2>3. IsFiniteSet(Marks(r, n)) /\ Cardinality(Marks(r, n)) = n
    BY <1>3, MarksCounted, NoticesFinite
  <2>4. QED
    BY <2>1, <2>2, <2>3, CountedApart
<1>8. ASSUME NEW u \in User
      PROVE  /\ IsFiniteSet(Notices!InFlight(u)')
             /\ Cardinality(MarkedOf(u)') =
                    told'[u] + lost'[u] + Cardinality(Notices!InFlight(u)')
  <2>1. CASE u = v
    <3>1. /\ told'[u] = told[u] /\ lost'[u] = lost[u]
          /\ told[u] \in Nat /\ lost[u] \in Nat
          /\ Cardinality(MarkedOf(u)) = told[u] + lost[u] + Cardinality(Notices!InFlight(u))
      BY <1>1 DEF Told
    <3>2. /\ MarkedOf(u)' = MarkedOf(u) \cup rows
          /\ Notices!InFlight(u)' = Notices!InFlight(u) \cup Marks(r, n)
      BY <1>4, <1>6, <2>1
    <3>3. n \in Nat
      BY <1>3, NoticesFinite
    <3> HIDE DEF v, rows, n
    <3>4. QED
      BY <1>5, <1>7, <2>1, <3>1, <3>2, <3>3
  <2>2. CASE u # v
    <3>1. MarkedOf(u)' = MarkedOf(u) /\ Notices!InFlight(u)' = Notices!InFlight(u)
      BY <1>4, <1>6, <2>2
    <3>2. QED
      BY <1>1, <3>1 DEF Told
  <2>3. QED
    BY <2>1, <2>2
<1>9. read' \subseteq Notice
  BY <1>1, <1>2 DEF Told
<1>10. count' \in [Request -> 0 .. Cardinality(Notice)]
  <2> HIDE DEF n
  <2>1. QED
    BY <1>1, <1>3 DEF Told
<1>11. QED
  BY <1>1, <1>8, <1>9, <1>10 DEF Told

\* A handler forgets what it had in hand: the marks of an answer are told or
\* lost.
LEMMA LeaveTold ==
    ASSUME Told, NEW r \in Request,
           Notices!Answer(r) \/ Notices!ListAnswer(r) \/ Notices!Abort(r)
    PROVE  Told'
<1> USE DEF Notices!Label
<1> DEFINE v == user[r]
           n == count[r]
<1>1. /\ noticePc' = [noticePc EXCEPT ![r] = "idle"]
      /\ user' = [user EXCEPT ![r] = Nobody]
      /\ count' = [count EXCEPT ![r] = 0]
      /\ read' = read
      /\ noticePc[r] # "idle" /\ v \in User
  BY DEF Told, Notices!Answer, Notices!ListAnswer, Notices!Abort, Notices!Leave,
     Notices!Listed
<1>2. \A u : MarkedOf(u)' = MarkedOf(u)
  BY <1>1 DEF MarkedOf, Notices!Owned
<1>3. n \in 0 .. Cardinality(Notice) /\ n \in Nat
  BY NoticesFinite DEF Told
<1>4. ASSUME NEW u \in User
      PROVE  \A m : m \in Notices!InFlight(u)' <=> m \in Notices!InFlight(u) /\ m[1] # r
  <2>1. \A m : m[1] # r => (m \in Notices!InFlight(u)' <=> m \in Notices!InFlight(u))
    BY <1>1, InFlightApart
  <2>2. \A m : m \in Notices!InFlight(u)' => m[1] # r
    BY <1>1 DEF Told, Notices!InFlight
  <2>3. QED
    BY <2>1, <2>2
<1>5. CASE noticePc[r] # "answer"
  <2>1. told' = told /\ lost' = lost
    BY <1>5 DEF Notices!Answer, Notices!ListAnswer, Notices!Abort, Notices!historyVars
  <2>2. \A u \in User : Notices!InFlight(u)' = Notices!InFlight(u)
    <3>1. \A u \in User : \A m : m \in Notices!InFlight(u) => m[1] # r
      BY <1>5 DEF Notices!InFlight
    <3>2. QED
      BY <1>4, <3>1
  <2>3. \A u \in User :
          /\ IsFiniteSet(Notices!InFlight(u)')
          /\ Cardinality(MarkedOf(u)') = told'[u] + lost'[u] + Cardinality(Notices!InFlight(u)')
    BY <1>2, <2>1, <2>2 DEF Told
  <2>4. QED
    BY <1>1, <2>1, <2>3, NoticesFinite DEF Told
<1>6. CASE noticePc[r] = "answer"
  <2>1. /\ told' \in [User -> Nat] /\ lost' \in [User -> Nat]
        /\ \A u \in User : told'[u] + lost'[u] = IF u = v THEN told[u] + lost[u] + n
                                                        ELSE told[u] + lost[u]
    <3>1. \/ told' = [told EXCEPT ![v] = @ + n] /\ lost' = lost
          \/ lost' = [lost EXCEPT ![v] = @ + n] /\ told' = told
      BY <1>6 DEF Notices!Answer, Notices!ListAnswer, Notices!Abort, Notices!Listed
    <3> HIDE DEF v, n
    <3>2. QED
      BY <1>1, <1>3, <3>1 DEF Told
  <2>2. ASSUME NEW u \in User, u # v
        PROVE  Notices!InFlight(u)' = Notices!InFlight(u)
    <3>1. \A m : m \in Notices!InFlight(u) => m[1] # r
      BY <2>2 DEF Notices!InFlight
    <3>2. QED
      BY <1>4, <3>1
  <2>3. ASSUME NEW u \in User, u = v
        PROVE  /\ Notices!InFlight(u) = Notices!InFlight(u)' \cup Marks(r, n)
               /\ Notices!InFlight(u)' \cap Marks(r, n) = {}
    <3>1. \A m \in Request \X (1 .. Cardinality(Notice)) : m[1] = r =>
              (m \in Notices!InFlight(u) <=> m \in Marks(r, n))
      BY <1>3, <1>6, <2>3, NoticesFinite DEF Notices!InFlight, Marks
    <3>2. /\ Notices!InFlight(u) \subseteq Request \X (1 .. Cardinality(Notice))
          /\ Marks(r, n) \subseteq Request \X (1 .. Cardinality(Notice))
          /\ \A m \in Marks(r, n) : m[1] = r
      BY <1>3, NoticesFinite DEF Notices!InFlight, Marks
    <3> HIDE DEF v, n
    <3>3. QED
      BY <1>4, <3>1, <3>2
  <2>4. ASSUME NEW u \in User
        PROVE  /\ IsFiniteSet(Notices!InFlight(u)')
               /\ Cardinality(MarkedOf(u)') =
                      told'[u] + lost'[u] + Cardinality(Notices!InFlight(u)')
    <3>1. /\ told[u] \in Nat /\ lost[u] \in Nat
          /\ IsFiniteSet(Notices!InFlight(u))
          /\ Cardinality(MarkedOf(u)) = told[u] + lost[u] + Cardinality(Notices!InFlight(u))
      BY DEF Told
    <3>2. CASE u # v
      BY <1>2, <2>1, <2>2, <3>1, <3>2
    <3>3. CASE u = v
      <4>1. IsFiniteSet(Notices!InFlight(u)')
        BY <2>3, <3>1, <3>3, FS_Subset
      <4>2. IsFiniteSet(Marks(r, n)) /\ Cardinality(Marks(r, n)) = n
        BY <1>3, MarksCounted
      <4>3. /\ Cardinality(Notices!InFlight(u)) = Cardinality(Notices!InFlight(u)') + n
            /\ Cardinality(Notices!InFlight(u)') \in Nat
        BY <2>3, <3>3, <4>1, <4>2, CountedApart
      <4> HIDE DEF v, n
      <4>4. told'[u] + lost'[u] = told[u] + lost[u] + n
        BY <2>1, <3>3
      <4>5. told'[u] \in Nat /\ lost'[u] \in Nat /\ MarkedOf(u)' = MarkedOf(u)
        BY <1>2, <2>1
      <4>6. QED
        BY <1>3, <3>1, <4>1, <4>3, <4>4, <4>5
    <3>4. QED
      BY <3>2, <3>3
  <2>5. QED
    BY <1>1, <2>1, <2>4, NoticesFinite DEF Told
<1>7. QED
  BY <1>5, <1>6

\* Requests begin and listings are counted: no mark is made or told.
LEMMA OtherwiseTold ==
    ASSUME Told, NEW r \in Request, UNCHANGED <<read, told, lost>>,
           noticePc[r] # "answer", noticePc'[r] # "answer",
           noticePc' \in [Request -> Notices!Label],
           user' \in [Request -> User \cup {Nobody}],
           count' \in [Request -> 0 .. Cardinality(Notice)],
           noticePc'[r] # "idle" => user'[r] \in User,
           \A q \in Request \ {r} :
               noticePc'[q] = noticePc[q] /\ user'[q] = user[q] /\ count'[q] = count[q]
    PROVE  Told'
<1>1. \A u : MarkedOf(u)' = MarkedOf(u)
  BY DEF MarkedOf, Notices!Owned
<1>2. ASSUME NEW u \in User
      PROVE  Notices!InFlight(u)' = Notices!InFlight(u)
  <2>1. \A m : m[1] # r => (m \in Notices!InFlight(u)' <=> m \in Notices!InFlight(u))
    BY InFlightApart
  <2>2. \A m : m \in Notices!InFlight(u) \/ m \in Notices!InFlight(u)' => m[1] # r
    BY DEF Notices!InFlight
  <2>3. QED
    BY <2>1, <2>2
<1>3. \A u \in User :
        /\ IsFiniteSet(Notices!InFlight(u)')
        /\ Cardinality(MarkedOf(u)') = told'[u] + lost'[u] + Cardinality(Notices!InFlight(u)')
  BY <1>1, <1>2 DEF Told
<1>4. QED
  BY <1>3 DEF Told

\* Whatever a handler does, no mark is told twice or forgotten.
LEMMA ToldStep ==
    ASSUME Told, Notices!Next
    PROVE  Told'
<1> USE DEF Notices!Label
<1>1. PICK r \in Request :
        \/ \E u \in User, n \in Notice : Notices!MarkAsRead(r, u, n)
        \/ \E u \in User : Notices!MarkAllAsRead(r, u) \/ Notices!GetNotifications(r, u)
        \/ Notices!Mark(r) \/ Notices!Answer(r)
        \/ Notices!FindByUser(r) \/ Notices!CountUnread(r) \/ Notices!ListAnswer(r)
        \/ Notices!Abort(r)
  BY DEF Notices!Next
<1>2. ASSUME NEW label \in {"mark", "list"}, NEW u \in User, NEW n,
             Notices!Enter(r, label, u, n)
      PROVE  Told'
  BY <1>2, OtherwiseTold DEF Told, Notices!Enter, Notices!historyVars
<1>3. CASE Notices!FindByUser(r)
  BY <1>3, OtherwiseTold DEF Told, Notices!FindByUser, Notices!historyVars
<1>4. CASE Notices!CountUnread(r)
  <2> DEFINE n == Cardinality(Notices!countUnread(user[r]))
  <2>1. n \in 0 .. Cardinality(Notice)
    BY NoticesFinite DEF Notices!countUnread, Notices!Owned
  <2>2. count' = [count EXCEPT ![r] = n]
    BY <1>4, SameOperators DEF Notices!CountUnread
  <2> HIDE DEF n
  <2>3. QED
    BY <1>4, <2>1, <2>2, OtherwiseTold DEF Told, Notices!CountUnread, Notices!historyVars
<1>5. QED
  BY <1>1, <1>2, <1>3, <1>4, MarkTold, LeaveTold DEF Notices!MarkAsRead,
     Notices!MarkAllAsRead, Notices!GetNotifications

ToldInv == subject = "notices" => Told

\* Every mark is given, on its way or lost, exactly once.
THEOREM ToldInvariant == Spec => []ToldInv
<1> USE DEF ToldInv
<1>1. Init => ToldInv
  <2> SUFFICES ASSUME Notices!Init
               PROVE  Told
    BY DEF Init
  <2>1. \A u : MarkedOf(u) = {} /\ Notices!InFlight(u) = {}
    BY DEF Notices!Init, MarkedOf, Notices!InFlight
  <2>2. \A u \in User :
          /\ IsFiniteSet(Notices!InFlight(u))
          /\ Cardinality(MarkedOf(u)) = told[u] + lost[u] + Cardinality(Notices!InFlight(u))
    BY <2>1, FS_EmptySet DEF Notices!Init
  <2>3. QED
    BY <2>2, NoticesFinite DEF Notices!Init, Told, Notices!Label
<1>2. ToldInv /\ [Next]_vars => ToldInv'
  <2> SUFFICES ASSUME ToldInv, [Next]_vars, subject' = "notices"
               PROVE  Told'
    OBVIOUS
  <2>1. CASE About("notices") /\ Notices!Next
    BY <2>1, ToldStep DEF About
  <2>2. CASE UNCHANGED <<subject, noticeVars>>
    BY <2>2 DEF noticeVars, Told, MarkedOf, Notices!Owned, Notices!InFlight
  <2>3. QED
    BY <2>1, <2>2 DEF Next, About, vars
<1>3. QED
  BY <1>1, <1>2, PTL DEF Spec

\* Of the notifications of a user that were marked, each is counted in exactly
\* one answer, given, on its way or lost: handlers that mark the same one at
\* once do not both report it.
THEOREM EveryMarkIsToldOnce == Spec => []MarksAreToldOnce
<1>1. ToldInv => MarksAreToldOnce
  BY SameOperators DEF ToldInv, Told, MarkedOf, MarksAreToldOnce, Notices!MarksAreToldOnce
<1>2. QED
  BY <1>1, ToldInvariant, PTL

-----------------------------------------------------------------------------
(* Push tokens.                                                            *)

\* What OnlyDistinctRequested rests on: a handler adds a token to an array
\* that did not hold it, so that no array it may write later, over whatever
\* others wrote, holds one twice or one that nobody asked for.
Requested ==
    /\ Tokens!TypeOK
    /\ OnlyDistinctRequested
    /\ \A r \in Request :
          /\ tokenPc[r] # "idle" => arg[r] \in Token
          /\ tokenPc[r] \in {"add.read", "add.write"} => arg[r] \in ever
          /\ tokenPc[r] \in {"add.write", "remove.write"} =>
                Tokens!Distinct(copy[r]) /\ Tokens!Holds(copy[r]) \subseteq ever

\* Whatever a handler does, the arrays stay free of duplicates.
LEMMA TokenStep ==
    ASSUME Requested, subject = "tokens", subject' = subject, Tokens!Next
    PROVE  Requested'
<1> USE DEF Tokens!Label, Tokens!Array
<1>1. PICK r \in Request :
        \/ \E t \in Token : Tokens!RegisterFcmToken(r, t) \/ Tokens!RemoveFcmToken(r, t)
        \/ Tokens!AddRead(r) \/ Tokens!AddWrite(r) \/ Tokens!RemoveRead(r)
        \/ Tokens!RemoveWrite(r) \/ Tokens!Abort(r)
  BY DEF Tokens!Next
<1> USE DEF Requested, Tokens!TypeOK, OnlyDistinctRequested, Tokens!OnlyDistinctRequested,
        Tokens!Distinct, Tokens!Holds
<1>2. ASSUME NEW t \in Token, Tokens!RegisterFcmToken(r, t) \/ Tokens!RemoveFcmToken(r, t)
      PROVE  Requested'
  <2>1. tokenSerial' \in BOOLEAN
    BY <1>2 DEF Tokens!RegisterFcmToken, Tokens!RemoveFcmToken, Tokens!Begin
  <2>2. /\ UNCHANGED <<fcmTokens, copy, registered>>
        /\ tokenPc[r] = "idle"
        /\ arg' = [arg EXCEPT ![r] = t]
        /\ \/ tokenPc' = [tokenPc EXCEPT ![r] = "add.read"] /\ ever' = ever \cup {t}
           \/ tokenPc' = [tokenPc EXCEPT ![r] = "remove.read"] /\ ever' = ever
    BY <1>2 DEF Tokens!RegisterFcmToken, Tokens!RemoveFcmToken, Tokens!Begin
  <2>3. QED
    BY <2>1, <2>2
<1>3. ASSUME Tokens!Leave(r), ever' = ever, tokenSerial' = tokenSerial,
             registered' \subseteq registered \cup {arg[r]}, tokenPc[r] # "idle",
             \/ fcmTokens' = fcmTokens
             \/ fcmTokens' = copy[r] /\ tokenPc[r] \in {"add.write", "remove.write"}
      PROVE  Requested'
  <2>1. fcmTokens' \in Tokens!Array /\ OnlyDistinctRequested'
    BY <1>3
  <2>2. /\ tokenPc' = [tokenPc EXCEPT ![r] = "idle"]
        /\ arg' = [arg EXCEPT ![r] = None]
        /\ copy' = [copy EXCEPT ![r] = Tokens!Empty]
    BY <1>3 DEF Tokens!Leave
  <2>3. Tokens!Empty \in Tokens!Array
    BY DEF Tokens!Empty
  <2> HIDE DEF Tokens!Array
  <2>4. Tokens!TypeOK'
    BY <1>3, <2>1, <2>2, <2>3
  <2>5. \A q \in Request : q # r =>
          tokenPc'[q] = tokenPc[q] /\ arg'[q] = arg[q] /\ copy'[q] = copy[q]
    BY <2>2
  <2>6. tokenPc'[r] = "idle"
    BY <2>2
  <2>7. QED
    BY <1>3, <2>1, <2>4, <2>5, <2>6
<1>4. CASE Tokens!AddRead(r) /\ arg[r] \in Tokens!Holds(fcmTokens)
  <2>1. Tokens!Leave(r) /\ tokenPc[r] # "idle"
    BY <1>4 DEF Tokens!AddRead
  <2>2. UNCHANGED <<fcmTokens, ever, tokenSerial>> /\ registered' = registered \cup {arg[r]}
    BY <1>4 DEF Tokens!AddRead
  <2>3. QED
    BY <1>3, <2>1, <2>2
<1>5. CASE Tokens!AddRead(r) /\ arg[r] \notin Tokens!Holds(fcmTokens)
  <2> DEFINE longer == [fcmTokens EXCEPT ![arg[r]] = @ + 1]
  <2>1. /\ tokenPc[r] = "add.read"
        /\ tokenPc' = [tokenPc EXCEPT ![r] = "add.write"]
        /\ copy' = [copy EXCEPT ![r] = longer]
        /\ UNCHANGED <<fcmTokens, arg, registered, ever, tokenSerial>>
    BY <1>5 DEF Tokens!AddRead
  <2>2. /\ longer \in Tokens!Array
        /\ Tokens!Distinct(longer) /\ Tokens!Holds(longer) \subseteq ever
    <3>1. arg[r] \in Token /\ arg[r] \in ever /\ fcmTokens[arg[r]] = 0
      BY <1>5, <2>1
    <3>2. QED
      BY <3>1
  <2> HIDE DEF longer
  <2>3. QED
    BY <2>1, <2>2
<1>6. CASE Tokens!RemoveRead(r)
  BY <1>6 DEF Tokens!RemoveRead
<1>7. CASE Tokens!AddWrite(r)
  BY <1>3, <1>7 DEF Tokens!AddWrite
<1>8. CASE Tokens!RemoveWrite(r)
  BY <1>3, <1>8 DEF Tokens!RemoveWrite
<1>9. CASE Tokens!Abort(r)
  BY <1>3, <1>9 DEF Tokens!Abort
<1>10. QED
  BY <1>1, <1>2, <1>4, <1>5, <1>6, <1>7, <1>8, <1>9

RequestedInv == subject = "tokens" => Requested

\* Every array in the database or in a handler's hands is free of duplicates.
THEOREM RequestedInvariant == Spec => []RequestedInv
<1> USE DEF RequestedInv
<1>1. Init => RequestedInv
  <2> SUFFICES ASSUME Tokens!Init, subject = "tokens"
               PROVE  Requested
    BY DEF Init
  <2> USE DEF Tokens!Init, Tokens!Empty, Tokens!Holds, Tokens!Distinct
  <2>1. Tokens!TypeOK
    BY DEF Tokens!TypeOK, Tokens!Array, Tokens!Label
  <2>2. OnlyDistinctRequested
    BY DEF OnlyDistinctRequested, Tokens!OnlyDistinctRequested
  <2>3. QED
    BY <2>1, <2>2 DEF Requested
<1>2. RequestedInv /\ [Next]_vars => RequestedInv'
  <2> SUFFICES ASSUME RequestedInv, [Next]_vars, subject' = "tokens"
               PROVE  Requested'
    OBVIOUS
  <2>1. CASE About("tokens") /\ Tokens!Next
    BY <2>1, TokenStep DEF About
  <2>2. CASE UNCHANGED <<subject, tokenVars>>
    BY <2>2 DEF tokenVars, Requested, Tokens!TypeOK, OnlyDistinctRequested,
       Tokens!OnlyDistinctRequested, Tokens!Distinct, Tokens!Holds
  <2>3. QED
    BY <2>1, <2>2 DEF Next, About, vars
<1>3. QED
  BY <1>1, <1>2, PTL DEF Spec

\* However many handlers read the array of push tokens and write it back over
\* each other, no device is in it twice, and none that nobody registered.
THEOREM TokensAreDistinctAndRequested == Spec => []OnlyDistinctRequested
<1>1. RequestedInv => OnlyDistinctRequested
  BY DEF RequestedInv, Requested, OnlyDistinctRequested
<1>2. QED
  BY <1>1, RequestedInvariant, PTL

\* As long as no handlers have overlapped: at most one is at work, the array
\* holds the registered tokens, and the copy of that one is what it holds and
\* the token it adds, or without the one it removes.
Exact ==
    tokenSerial =>
        /\ \A q, r \in Request : tokenPc[q] # "idle" /\ tokenPc[r] # "idle" => q = r
        /\ Tokens!Holds(fcmTokens) = registered
        /\ \A r \in Request :
              /\ tokenPc[r] = "add.write" =>
                    Tokens!Holds(copy[r]) = Tokens!Holds(fcmTokens) \cup {arg[r]}
              /\ tokenPc[r] = "remove.write" =>
                    Tokens!Holds(copy[r]) = Tokens!Holds(fcmTokens) \ {arg[r]}

\* The one handler at work makes a step, or another begins.
LEMMA ExactStep ==
    ASSUME Requested, Exact, Tokens!Next
    PROVE  Exact'
<1> SUFFICES ASSUME tokenSerial'
             PROVE  Exact'
  BY DEF Exact
<1> USE DEF Tokens!Label
<1>1. PICK r \in Request :
        \/ \E t \in Token : Tokens!RegisterFcmToken(r, t) \/ Tokens!RemoveFcmToken(r, t)
        \/ Tokens!AddRead(r) \/ Tokens!AddWrite(r) \/ Tokens!RemoveRead(r)
        \/ Tokens!RemoveWrite(r) \/ Tokens!Abort(r)
  BY DEF Tokens!Next
<1>2. tokenSerial
  BY <1>1 DEF Tokens!RegisterFcmToken, Tokens!RemoveFcmToken, Tokens!Begin,
     Tokens!AddRead, Tokens!AddWrite, Tokens!RemoveRead, Tokens!RemoveWrite, Tokens!Abort
<1>3. \A q \in Request : q # r => tokenPc[q] = "idle"
  BY <1>1, <1>2 DEF Exact, Tokens!RegisterFcmToken, Tokens!RemoveFcmToken, Tokens!Begin,
     Tokens!AddRead, Tokens!AddWrite, Tokens!RemoveRead, Tokens!RemoveWrite, Tokens!Abort
<1>4. \A q \in Request : q # r => tokenPc'[q] = "idle"
  BY <1>1, <1>3 DEF Requested, Tokens!TypeOK, Tokens!RegisterFcmToken,
     Tokens!RemoveFcmToken, Tokens!Begin, Tokens!AddRead, Tokens!AddWrite,
     Tokens!RemoveRead, Tokens!RemoveWrite, Tokens!Abort, Tokens!Leave
<1>5. Tokens!Holds(fcmTokens) = registered
  BY <1>2 DEF Exact
<1>6. ASSUME Tokens!Holds(fcmTokens)' = registered',
             tokenPc'[r] \notin {"add.write", "remove.write"}
      PROVE  Exact'
  BY <1>4, <1>6 DEF Exact
<1>7. ASSUME NEW t \in Token, Tokens!RegisterFcmToken(r, t) \/ Tokens!RemoveFcmToken(r, t)
      PROVE  Exact'
  BY <1>5, <1>6, <1>7 DEF Requested, Tokens!TypeOK, Tokens!RegisterFcmToken,
     Tokens!RemoveFcmToken, Tokens!Begin, Tokens!Holds
<1>8. CASE Tokens!AddRead(r) /\ arg[r] \in Tokens!Holds(fcmTokens)
  <2>1. registered' = registered /\ fcmTokens' = fcmTokens
    BY <1>5, <1>8 DEF Tokens!AddRead
  <2>2. tokenPc'[r] = "idle"
    BY <1>8 DEF Tokens!AddRead, Tokens!Leave, Requested, Tokens!TypeOK
  <2>3. QED
    BY <1>5, <1>6, <2>1, <2>2 DEF Tokens!Holds
<1>9. CASE Tokens!AddRead(r) /\ arg[r] \notin Tokens!Holds(fcmTokens)
  <2>1. /\ tokenPc'[r] = "add.write"
        /\ copy'[r] = [fcmTokens EXCEPT ![arg[r]] = @ + 1]
        /\ UNCHANGED <<fcmTokens, arg, registered>>
        /\ arg[r] \in Token
    BY <1>9 DEF Tokens!AddRead, Requested, Tokens!TypeOK
  <2>2. Tokens!Holds(copy[r])' = Tokens!Holds(fcmTokens)' \cup {arg'[r]}
    BY <2>1 DEF Requested, Tokens!TypeOK, Tokens!Array, Tokens!Holds
  <2>3. Tokens!Holds(fcmTokens)' = registered'
    BY <1>5, <2>1 DEF Tokens!Holds
  <2>4. QED
    BY <1>4, <2>1, <2>2, <2>3 DEF Exact
<1>10. CASE Tokens!RemoveRead(r)
  <2>1. /\ tokenPc'[r] = "remove.write"
        /\ copy'[r] = [fcmTokens EXCEPT ![arg[r]] = 0]
        /\ UNCHANGED <<fcmTokens, arg, registered>>
        /\ arg[r] \in Token
    BY <1>10 DEF Tokens!RemoveRead, Requested, Tokens!TypeOK
  <2>2. Tokens!Holds(copy[r])' = Tokens!Holds(fcmTokens)' \ {arg'[r]}
    BY <2>1 DEF Requested, Tokens!TypeOK, Tokens!Array, Tokens!Holds
  <2>3. Tokens!Holds(fcmTokens)' = registered'
    BY <1>5, <2>1 DEF Tokens!Holds
  <2>4. QED
    BY <1>4, <2>1, <2>2, <2>3 DEF Exact
<1>11. CASE Tokens!AddWrite(r)
  <2>1. /\ tokenPc[r] = "add.write" /\ tokenPc'[r] = "idle"
        /\ fcmTokens' = copy[r] /\ registered' = registered \cup {arg[r]}
    BY <1>11 DEF Tokens!AddWrite, Tokens!Leave, Requested, Tokens!TypeOK
  <2>2. Tokens!Holds(copy[r]) = registered \cup {arg[r]}
    BY <1>2, <1>5, <2>1 DEF Exact
  <2>3. Tokens!Holds(fcmTokens)' = registered'
    BY <2>1, <2>2 DEF Tokens!Holds
  <2>4. QED
    BY <1>6, <2>1, <2>3
<1>12. CASE Tokens!RemoveWrite(r)
  <2>1. /\ tokenPc[r] = "remove.write" /\ tokenPc'[r] = "idle"
        /\ fcmTokens' = copy[r] /\ registered' = registered \ {arg[r]}
    BY <1>12 DEF Tokens!RemoveWrite, Tokens!Leave, Requested, Tokens!TypeOK
  <2>2. Tokens!Holds(copy[r]) = registered \ {arg[r]}
    BY <1>2, <1>5, <2>1 DEF Exact
  <2>3. Tokens!Holds(fcmTokens)' = registered'
    BY <2>1, <2>2 DEF Tokens!Holds
  <2>4. QED
    BY <1>6, <2>1, <2>3
<1>13. CASE Tokens!Abort(r)
  <2>1. tokenPc'[r] = "idle" /\ UNCHANGED <<fcmTokens, registered>>
    BY <1>13 DEF Tokens!Abort, Tokens!Leave, Requested, Tokens!TypeOK
  <2>2. QED
    BY <1>5, <1>6, <2>1 DEF Tokens!Holds
<1>14. QED
  BY <1>1, <1>7, <1>8, <1>9, <1>10, <1>11, <1>12, <1>13

ExactInv == subject = "tokens" => Exact

\* Without overlaps, the array follows the requests.
THEOREM ExactInvariant == Spec => []ExactInv
<1> USE DEF ExactInv
<1>1. Init => ExactInv
  BY DEF Init, Tokens!Init, Exact, Tokens!Empty, Tokens!Holds
<1>2. RequestedInv /\ ExactInv /\ [Next]_vars => ExactInv'
  <2> SUFFICES ASSUME RequestedInv, ExactInv, [Next]_vars, subject' = "tokens"
               PROVE  Exact'
    OBVIOUS
  <2>1. CASE About("tokens") /\ Tokens!Next
    BY <2>1, ExactStep DEF About, RequestedInv
  <2>2. CASE UNCHANGED <<subject, tokenVars>>
    BY <2>2 DEF tokenVars, Exact, Tokens!Holds
  <2>3. QED
    BY <2>1, <2>2 DEF Next, About, vars
<1>3. QED
  BY <1>1, <1>2, RequestedInvariant, PTL DEF Spec

\* As long as the requests of a user do not overlap, the array holds exactly
\* the tokens whose last finished request added them, also after crashes.
THEOREM TokensAreExactWhenSerial == Spec => []SerialIsExact
<1>1. ExactInv => SerialIsExact
  BY DEF ExactInv, Exact, SerialIsExact, Tokens!SerialIsExact
<1>2. QED
  BY <1>1, ExactInvariant, PTL

-----------------------------------------------------------------------------
(* Types.                                                                  *)

\* What the types of categories need besides what is proved of them: readers
\* know the key of what they read.
Keyed ==
    /\ categoryTtl \subseteq Categories!Key
    /\ categorySerial \in BOOLEAN
    /\ \A r \in Request : categoryPc[r] \in {"find", "include", "store"} => new[r] \in Categories!Key

\* Whatever a handler does, it stores under keys that there are.
LEMMA KeyedStep ==
    ASSUME Known, Keyed, Categories!Next
    PROVE  Keyed'
<1> USE DEF Categories!Label, Categories!Key
<1>1. ASSUME NEW r \in Request, Categories!Begin(r), categorySerial' \in BOOLEAN
      PROVE  Keyed'
  <2>1. ASSUME NEW k \in Categories!Key, Categories!Read(r, k)
        PROVE  Keyed'
    BY <1>1, <2>1 DEF Known, Keyed, Categories!Read, Categories!Enter, Categories!cacheVars
  <2>2. ASSUME NEW label, label \notin {"find", "include", "store"}, NEW c, NEW k, NEW p,
               Categories!Enter(r, label, c, k, p), UNCHANGED Categories!cacheVars
        PROVE  Keyed'
    BY <1>1, <2>2 DEF Known, Keyed, Categories!Enter, Categories!cacheVars
  <2>3. \A p : Categories!ParentOrWrite(p) \notin {"find", "include", "store"}
    BY DEF Categories!ParentOrWrite
  <2>4. ASSUME NEW k \in Slug, NEW p \in Categories!ParentId, Categories!Create(r, k, p)
        PROVE  Keyed'
    BY <2>2, <2>3, <2>4 DEF Categories!Create
  <2>5. ASSUME NEW c \in Categories!Category, NEW k \in Slug \cup {None},
               NEW p \in Categories!ParentId, Categories!Update(r, c, k, p)
        PROVE  Keyed'
    <3>1. CASE k \notin {None, slug[c]}
      BY <2>2, <2>5, <3>1 DEF Categories!Update
    <3>2. CASE ~(k \notin {None, slug[c]})
      BY <2>2, <2>3, <2>5, <3>2 DEF Categories!Update
    <3>3. QED
      BY <3>1, <3>2
  <2>6. ASSUME NEW c \in Categories!Category, Categories!Delete(r, c)
        PROVE  Keyed'
    BY <2>2, <2>6 DEF Categories!Delete
  <2>7. QED
    BY <1>1, <2>1, <2>4, <2>5, <2>6 DEF Categories!Begin
<1>2. ASSUME NEW r \in Request, Categories!Leave(r), categorySerial' \in BOOLEAN,
             categoryTtl' \subseteq Categories!Key
      PROVE  Keyed'
  BY <1>2 DEF Known, Keyed, Categories!Leave
<1>3. ASSUME NEW r \in Request, NEW label \in {"parent.find", "write", "del"},
             Categories!Goto(r, label), UNCHANGED <<categoryTtl, categorySerial>>
      PROVE  Keyed'
  BY <1>3 DEF Known, Keyed, Categories!Goto, Categories!localVars
<1>4. ASSUME NEW r \in Request, Categories!Query(r), categorySerial' = categorySerial
      PROVE  Keyed'
  <2>1. CASE Categories!Find(r) \/ Categories!Include(r)
    BY <1>4, <2>1 DEF Known, Keyed, Categories!Find, Categories!Include, Categories!Found,
       Categories!cacheVars
  <2>2. CASE Categories!Store(r)
    <3>1. new[r] \in Categories!Key
      BY <2>2 DEF Keyed, Categories!Store
    <3>2. categoryTtl' \subseteq Categories!Key /\ Categories!Leave(r)
      BY <2>2, <3>1 DEF Keyed, Categories!Store, Categories!set
    <3>3. QED
      BY <1>2, <1>4, <3>2 DEF Keyed
  <2>3. CASE Categories!Del(r)
    <3>1. categoryTtl' \subseteq Categories!Key /\ Categories!Leave(r)
      BY <2>3 DEF Keyed, Categories!Del, Categories!del, Categories!delAll
    <3>2. QED
      BY <1>2, <1>4, <3>1 DEF Keyed
  <2>4. CASE /\ ~Categories!Find(r) /\ ~Categories!Include(r)
             /\ ~Categories!Store(r) /\ ~Categories!Del(r)
    <3>1. /\ UNCHANGED categoryTtl
          /\ \/ Categories!Leave(r)
             \/ \E label \in {"parent.find", "write", "del"} : Categories!Goto(r, label)
      BY <1>4, <2>4 DEF Categories!Query, Categories!UpdateConflict, Categories!ParentFind,
         Categories!CreateWrite, Categories!UpdateWrite, Categories!DeleteWrite,
         Categories!ParentOrWrite, Categories!cacheVars
    <3>2. QED
      BY <1>2, <1>3, <1>4, <3>1 DEF Keyed
  <2>5. QED
    BY <2>1, <2>2, <2>3, <2>4
<1>5. ASSUME NEW r \in Request, Categories!Arrive(r)
      PROVE  Keyed'
  <2>1. categorySerial' \in BOOLEAN
    BY <1>5 DEF Categories!Arrive
  <2>2. QED
    BY <1>1, <1>5, <2>1 DEF Categories!Arrive
<1>6. ASSUME NEW r \in Request, Categories!Abort(r)
      PROVE  Keyed'
  <2>1. categoryTtl' \subseteq Categories!Key /\ categorySerial' \in BOOLEAN
    BY <1>6 DEF Categories!Abort, Categories!cacheVars, Keyed
  <2>2. QED
    BY <1>2, <1>6, <2>1 DEF Categories!Abort
<1>7. CASE \E k \in Categories!Key : Categories!Expire(k)
  <2>1. /\ categoryTtl' \subseteq categoryTtl
        /\ UNCHANGED <<categorySerial, categoryPc, new>>
    BY <1>7 DEF Categories!Expire, Categories!expire, Categories!del, Categories!delAll,
       Categories!localVars
  <2>2. QED
    BY <2>1 DEF Keyed
<1>8. QED
  BY <1>4, <1>5, <1>6, <1>7 DEF Categories!Next, Categories!Step

KeyedInv == subject = "categories" => Keyed

\* Redis holds categories under their keys only.
THEOREM KeyedInvariant == Spec => []KeyedInv
<1> USE DEF KeyedInv
<1>1. Init => KeyedInv
  BY DEF Init, Categories!Init, Keyed
<1>2. TreeInv /\ KeyedInv /\ [Next]_vars => KeyedInv'
  <2> SUFFICES ASSUME TreeInv, KeyedInv, [Next]_vars, subject' = "categories"
               PROVE  Keyed'
    OBVIOUS
  <2>1. CASE About("categories") /\ Categories!Next
    BY <2>1, KeyedStep DEF About, TreeInv
  <2>2. CASE UNCHANGED <<subject, categoryVars>>
    BY <2>2 DEF categoryVars, Keyed, Categories!Key
  <2>3. QED
    BY <2>1, <2>2 DEF Next, About, vars
<1>3. QED
  BY <1>1, <1>2, TreeInvariant, PTL DEF Spec

\* The variables of the part a behaviour is about keep their types: no write
\* goes beyond its bound, no array holds a token less than never, no page
\* number leaves the feed, and no count of notifications exceeds their number.
THEOREM TypesAreKept == Spec => []TypeOK
<1>1. Init => subject \in Subject
  BY DEF Init
<1>2. subject \in Subject /\ [Next]_vars => (subject \in Subject)'
  BY DEF Next, About, vars
<1>3. RequestedInv => (subject = "tokens" => Tokens!TypeOK)
  BY DEF RequestedInv, Requested
<1>4. TypedInv => (subject = "pages" => Pages!TypeOK)
  BY DEF TypedInv, Typed
<1>5. TreeInv /\ CopiesInv /\ KeyedInv => (subject = "categories" => Categories!TypeOK)
  BY DEF TreeInv, CopiesInv, KeyedInv, Tree, Known, Recorded, Copied, Keyed,
     Categories!TypeOK, Categories!ParentId
<1>6. AskedInv /\ ListingsInv /\ ToldInv => (subject = "notices" => Notices!TypeOK)
  <2> SUFFICES ASSUME Asked, ListingsInTime, Told
               PROVE  Notices!TypeOK
    BY DEF AskedInv, ListingsInv, ToldInv
  <2>1. ASSUME NEW u \in User
        PROVE  told[u] \in 0 .. Cardinality(Notice) /\ lost[u] \in 0 .. Cardinality(Notice)
    <3>1. /\ Cardinality(MarkedOf(u)) \in 0 .. Cardinality(Notice)
          /\ Cardinality(Notice) \in Nat
      BY NoticesFinite DEF MarkedOf, Notices!Owned
    <3>2. /\ IsFiniteSet(Notices!InFlight(u)) /\ told[u] \in Nat /\ lost[u] \in Nat
          /\ Cardinality(MarkedOf(u)) = told[u] + lost[u] + Cardinality(Notices!InFlight(u))
      BY DEF Told
    <3>3. Cardinality(Notices!InFlight(u)) \in Nat
      BY <3>2, FS_CardinalityType
    <3>4. QED
      BY <3>1, <3>2, <3>3
  <2>2. QED
    BY <2>1, NoticesFinite DEF Asked, ListingsInTime, Told, Notices!TypeOK
<1>7. /\ subject \in Subject /\ RequestedInv /\ TypedInv
      /\ TreeInv /\ CopiesInv /\ KeyedInv
      /\ AskedInv /\ ListingsInv /\ ToldInv
      => TypeOK
  <2> SUFFICES ASSUME subject \in Subject, RequestedInv, TypedInv,
                      TreeInv, CopiesInv, KeyedInv, AskedInv, ListingsInv, ToldInv
               PROVE  TypeOK
    OBVIOUS
  <2>1. subject = "tokens" => Tokens!TypeOK
    BY <1>3
  <2>2. subject = "pages" => Pages!TypeOK
    BY <1>4
  <2>3. subject = "categories" => Categories!TypeOK
    BY <1>5
  <2>4. subject = "notices" => Notices!TypeOK
    BY <1>6
  <2>5. QED
    BY <2>1, <2>2, <2>3, <2>4 DEF TypeOK
<1>8. QED
  BY <1>1, <1>2, <1>7, RequestedInvariant, TypedInvariant, TreeInvariant, CopiesInvariant,
     KeyedInvariant, AskedInvariant, ListingsInvariant, ToldInvariant, PTL DEF Spec
=============================================================================
