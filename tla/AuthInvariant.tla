----------------------------- MODULE AuthInvariant -----------------------------
(***************************************************************************)
(* The inductive invariant behind the safety properties of Auth: what the  *)
(* rows guarantee about each other, and what every handler may still rely  *)
(* on at each of its awaits although others have run since it read.        *)
(***************************************************************************)
EXTENDS Auth

RefreshLabel ==
    {"refresh.reuse", "refresh.reuse.revoke", "refresh.expired",
     "refresh.session", "refresh.revoke", "refresh.create", "refresh.reply"}

\* Labels at which a handler acts for a known user.
UserLabel ==
    {"guard.session", "logout.revoke", "logout.deactivate", "revoke.find",
     "revoke.deactivate", "revoke.tokens", "delete.write", "closeAll.find",
     "closeAll.write", "login.provider", "login.session", "login.token",
     "login.stamp", "change.find", "change.update", "forgot.create",
     "forgot.mail", "reset.update", "reset.mark"}

\* Of these, the ones at which it also holds a session of that user.
OwnSessionLabel ==
    {"guard.session", "logout.revoke", "logout.deactivate",
     "revoke.deactivate", "revoke.tokens", "login.token", "login.stamp"}

\* Labels of a handler that will end all sessions of its user.
ClosingLabel ==
    {"change.find", "change.update", "reset.update", "reset.mark",
     "closeAll.find", "closeAll.write"}

\* Foreign keys, and what clients can have been given.
Rows ==
    /\ \A t \in TokenId : sessionId[t] # None => userId[sessionId[t]] # None
    /\ \A t \in TokenId : sessionId[t] = None => parent[t] = None
    /\ \A t \in TokenId \cap delivered : sessionId[t] # None
    /\ \A k \in Link \cap delivered : linkUser[k] # None
    /\ \A s \in isActive : userId[s] # None
    /\ \A s \in closed : userId[s] # None

Locals ==
    \A r \in Request :
        /\ pc[r] \in RefreshLabel =>
             /\ tok[r] \in TokenId
             /\ ses[r] \in SessionId
             /\ sessionId[tok[r]] = ses[r]
        /\ pc[r] \in UserLabel => usr[r] \in User
        /\ pc[r] \in OwnSessionLabel =>
             /\ ses[r] \in SessionId
             /\ userId[ses[r]] = usr[r]
        /\ pc[r] = "login.stamp" => tok[r] \in TokenId /\ sessionId[tok[r]] # None
        /\ pc[r] = "forgot.mail" => tok[r] \in Link /\ linkUser[tok[r]] # None
        /\ pc[r] \in {"reset.update", "reset.mark"} => tok[r] \in Link
        /\ pc[r] = "refresh.create" => tok[r] \in revokedAt
        /\ pc[r] = "reset.mark" => applied[tok[r]] > 0

\* What a handler owes is what its remaining steps will end.
Debts ==
    \A r \in Request :
        /\ pc[r] \in {"logout.revoke", "logout.deactivate", "revoke.deactivate",
                      "revoke.tokens"} => owed[r] = {ses[r]}
        /\ pc[r] = "revoke.tokens" => ses[r] \notin isActive
        /\ pc[r] \in ClosingLabel => \A s \in owed[r] : userId[s] = usr[r]
        /\ pc[r] = "closeAll.write" =>
             /\ owed[r] \cap isActive \subseteq ids[r]
             /\ \A s \in ids[r] : userId[s] = usr[r]

-----------------------------------------------------------------------------
(* Why a session forks only through a double exchange: the tokens of a     *)
(* session form one chain from the login on, so at most one is childless,  *)
(* until a token is given a second child.                                  *)

Childless(t) == sessionId[t] # None /\ \A v \in TokenId : parent[v] # t

Family ==
    /\ \A r \in Request : pc[r] = "login.token" =>
          /\ \A t \in TokenId : sessionId[t] # ses[r]
          /\ \A q \in Request \ {r} : pc[q] = "login.token" => ses[q] # ses[r]
    /\ \A t, v \in TokenId :
          /\ t # v
          /\ sessionId[t] = sessionId[v]
          /\ Childless(t)
          /\ Childless(v)
          => \E a, b \in TokenId : Twins(a, b) /\ sessionId[a] = sessionId[t]

-----------------------------------------------------------------------------
(* Why no client is stranded unless a handler dies: every active session   *)
(* has a token, or a handler that is about to supply one or to end it.     *)

NoCrash == "abort" \notin Operations

SupplyingLabel == {"login.token", "refresh.create", "logout.deactivate"}

Usable(s) ==
    \E t \in TokenId : sessionId[t] = s /\ (t \notin revokedAt \/ t \in expired)

Attended(s) == \E r \in Request : ses[r] = s /\ pc[r] \in SupplyingLabel

\* What the two handlers that revoke without supplying know.
Revokers ==
    /\ \A t \in revokedAt : sessionId[t] # None
    /\ \A r \in Request :
         /\ pc[r] = "refresh.expired" => tok[r] \in expired
         /\ pc[r] = "refresh.reuse.revoke" => ses[r] \notin isActive

Supplied == \A s \in isActive : Usable(s) \/ Attended(s)

-----------------------------------------------------------------------------
(* What one handler at a time may rely on besides: what it has read is     *)
(* still so.                                                               *)

OneAtATime == \A q, r \in Request : q = r

\* No token is exchanged twice, since the one a refresh found unrevoked is
\* still unrevoked, and so without a child, when it is revoked.
Chain ==
    /\ \A a, b \in TokenId : ~Twins(a, b)
    /\ \A r \in Request :
         /\ pc[r] \in {"refresh.session", "refresh.revoke"} => tok[r] \notin revokedAt
         /\ pc[r] = "refresh.create" => \A v \in TokenId : parent[v] # tok[r]

\* The session a handler works on is still active, and its token is the only
\* one that was unrevoked.
Exchanging ==
    \A r \in Request :
        /\ pc[r] \in {"login.token", "refresh.revoke", "refresh.create"} =>
             ses[r] \in isActive
        /\ pc[r] = "refresh.create" =>
             \A t \in TokenId : sessionId[t] = ses[r] => t \in revokedAt

PasswordLabel ==
    {"login.session", "login.token", "login.stamp", "closeAll.find",
     "closeAll.write", "reset.mark"}

\* The password a handler verified or set is the current one, and the
\* sessions it found are all that its user has.
Current ==
    /\ \A u \in User : settled[u] <= passwordHash[u]
    /\ \A r \in Request :
         /\ pwd[r] # 0 => pc[r] \in PasswordLabel
         /\ pc[r] \in PasswordLabel => pwd[r] <= passwordHash[usr[r]]
         /\ pc[r] = "login.session" => pwd[r] = passwordHash[usr[r]]
         /\ pc[r] = "closeAll.write" =>
              \A s \in isActive : userId[s] = usr[r] => s \in ids[r]
    /\ ChangeEndsOlderSessions

-----------------------------------------------------------------------------
Consistent ==
    /\ TypeOK
    /\ Rows
    /\ Locals
    /\ Debts
    /\ ClosedStaysClosed
    /\ ExchangedIsRevoked
    /\ LinkSetsPasswordFirst
=============================================================================
