----------------------------- MODULE Notifications -----------------------------
(***************************************************************************)
(* Reading notifications and marking them as read                          *)
(* (notification.service.ts, notification.repository.ts).  A mark is one   *)
(* conditional update whose row count is the answer; the listing is a page *)
(* and a count, two queries sent side by side.  Nothing in the program     *)
(* creates notifications: there are those there are at the start, unread,  *)
(* numbered in the order of createdAt.                                     *)
(***************************************************************************)
EXTENDS Naturals, FiniteSets

CONSTANTS User, Notice, Request,
          owner,  \* user_notifications.userId, which nothing changes
          Limit,  \* bound: the page size every listing asks for
          Nobody, \* no user: an unset local
          All     \* the id of a handler that marks all; it owns nothing

Assumptions ==
    /\ Notice \subseteq Nat /\ IsFiniteSet(Notice) /\ All \notin Notice
    /\ owner \in [Notice -> User] /\ Nobody \notin User

VARIABLES
    read,     \* the rows whose readAt is set
    pc,       \* where each handler is
    user,     \* its user
    id,       \* the notice it marks, All for all of them
    count,    \* the rows its update changed, or the unread it counted
    found,    \* the unread rows on the page it found
    listed,   \* which of its two queries a listing has had: "page", "count"
    before,   \* history: the unread rows of its user when it began
    told,     \* history: how many marks each user was told of
    lost      \* history: how many marks had their answer lost

vars == <<read, pc, user, id, count, found, listed, before, told, lost>>
historyVars == <<told, lost>>

Label == {"idle", "mark", "answer", "list"}

TypeOK ==
    /\ read \subseteq Notice
    /\ pc \in [Request -> Label]
    /\ user \in [Request -> User \cup {Nobody}]
    /\ id \in [Request -> Notice \cup {All}]
    /\ count \in [Request -> 0 .. Cardinality(Notice)]
    /\ found \in [Request -> SUBSET Notice]
    /\ listed \in [Request -> SUBSET {"page", "count"}]
    /\ before \in [Request -> SUBSET Notice]
    /\ told \in [User -> 0 .. Cardinality(Notice)]
    /\ lost \in [User -> 0 .. Cardinality(Notice)]

Init ==
    /\ read = {}
    /\ pc = [r \in Request |-> "idle"]
    /\ user = [r \in Request |-> Nobody]
    /\ id = [r \in Request |-> All]
    /\ count = [r \in Request |-> 0]
    /\ found = [r \in Request |-> {}]
    /\ listed = [r \in Request |-> {}]
    /\ before = [r \in Request |-> {}]
    /\ told = [u \in User |-> 0]
    /\ lost = [u \in User |-> 0]

-----------------------------------------------------------------------------
\* Plausible slips in the definitions below; only mutation runs use them.
MarkableRead(u, n) == {m \in Notice : owner[m] = u /\ n \in {m, All}}
unreadOfAll(u) == Notice \ read

Owned(u) == {n \in Notice : owner[n] = u}

\* The rows of countUnread; of findByUser, the newest first; and below, of the
\* updates.
countUnread(u) == Owned(u) \ read
findByUser(u) == {n \in Owned(u) : Cardinality({m \in Owned(u) : m > n}) < Limit}

\* Another slip: only what a listing shows can be marked.
MarkableListed(u, n) == {m \in findByUser(u) \ read : n \in {m, All}}

Markable(u, n) == {m \in Owned(u) \ read : n \in {m, All}}

Enter(r, label, u, n) ==
    /\ pc[r] = "idle"
    /\ pc' = [pc EXCEPT ![r] = label]
    /\ user' = [user EXCEPT ![r] = u]
    /\ id' = [id EXCEPT ![r] = n]
    /\ before' = [before EXCEPT ![r] = Owned(u) \ read]
    /\ UNCHANGED <<read, count, found, listed, historyVars>>

Leave(r) ==
    /\ pc' = [pc EXCEPT ![r] = "idle"]
    /\ user' = [user EXCEPT ![r] = Nobody]
    /\ id' = [id EXCEPT ![r] = All]
    /\ count' = [count EXCEPT ![r] = 0]
    /\ found' = [found EXCEPT ![r] = {}]
    /\ listed' = [listed EXCEPT ![r] = {}]
    /\ before' = [before EXCEPT ![r] = {}]

-----------------------------------------------------------------------------
\* The user names a notification, perhaps somebody else's, or marks all.
MarkAsRead(r, u, n) == n \in Notice /\ Enter(r, "mark", u, n)
MarkAllAsRead(r, u) == Enter(r, "mark", u, All)

\* One updateMany, conditional on the user and on readAt.
Mark(r) ==
    LET rows == Markable(user[r], id[r])
    IN  /\ pc[r] = "mark"
        /\ pc' = [pc EXCEPT ![r] = "answer"]
        /\ read' = read \cup rows
        /\ count' = [count EXCEPT ![r] = Cardinality(rows)]
        /\ UNCHANGED <<user, id, found, listed, before, historyVars>>

\* The answer: "not found" when no row was changed, else what was marked.
Answer(r) ==
    /\ pc[r] = "answer"
    /\ told' = [told EXCEPT ![user[r]] = @ + count[r]]
    /\ Leave(r)
    /\ UNCHANGED <<read, lost>>

\* getNotifications: Promise.all sends both queries, which run in any order.
GetNotifications(r, u) == Enter(r, "list", u, All)

FindByUser(r) ==
    /\ pc[r] = "list" /\ "page" \notin listed[r]
    /\ found' = [found EXCEPT ![r] = findByUser(user[r]) \ read]
    /\ listed' = [listed EXCEPT ![r] = @ \cup {"page"}]
    /\ UNCHANGED <<read, pc, user, id, count, before, historyVars>>

CountUnread(r) ==
    /\ pc[r] = "list" /\ "count" \notin listed[r]
    /\ count' = [count EXCEPT ![r] = Cardinality(countUnread(user[r]))]
    /\ listed' = [listed EXCEPT ![r] = @ \cup {"count"}]
    /\ UNCHANGED <<read, pc, user, id, found, before, historyVars>>

Listed(r) == pc[r] = "list" /\ listed[r] = {"page", "count"}

ListAnswer(r) ==
    /\ Listed(r)
    /\ Leave(r)
    /\ UNCHANGED <<read, historyVars>>

\* A process dies or a query fails: a mark that was made is not answered.
Abort(r) ==
    /\ pc[r] # "idle"
    /\ lost' = IF pc[r] = "answer" THEN [lost EXCEPT ![user[r]] = @ + count[r]] ELSE lost
    /\ Leave(r)
    /\ UNCHANGED <<read, told>>

Next ==
    \E r \in Request :
        \/ \E u \in User, n \in Notice : MarkAsRead(r, u, n)
        \/ \E u \in User : MarkAllAsRead(r, u) \/ GetNotifications(r, u)
        \/ Mark(r) \/ Answer(r)
        \/ FindByUser(r) \/ CountUnread(r) \/ ListAnswer(r)
        \/ Abort(r)

Spec == Init /\ [][Next]_vars

-----------------------------------------------------------------------------
\* The marks that will be told to u, one by one.
InFlight(u) ==
    {m \in Request \X (1 .. Cardinality(Notice)) :
        user[m[1]] = u /\ pc[m[1]] = "answer" /\ m[2] <= count[m[1]]}

\* Of the notices of a user that were marked, each is counted in exactly one
\* answer to that user, given, on its way or lost: requests that mark the
\* same notice at once do not both report it, and nobody marks another's.
MarksAreToldOnce ==
    \A u \in User :
        Cardinality(Owned(u) \cap read) = told[u] + lost[u] + Cardinality(InFlight(u))

\* Any answer about a notice of one's own, "not found" too, means that it is
\* read: a request that is sent again after a lost answer is safe.
AnsweredIsRead ==
    \A r \in Request : pc[r] = "answer" => Owned(user[r]) \cap {id[r]} \subseteq read

\* The unread notices on a page and the unread count may disagree, but both
\* lie between what was unread when the listing began and what is when it
\* answers: they agree unless a notice was marked meanwhile.
ListingIsOfItsTime ==
    \A r \in Request : Listed(r) =>
        LET u == user[r]
            now == Owned(u) \ read
        IN  /\ count[r] \in Cardinality(now) .. Cardinality(before[r])
            /\ findByUser(u) \cap now \subseteq found[r]
            /\ found[r] \subseteq findByUser(u) \cap before[r]
=============================================================================
