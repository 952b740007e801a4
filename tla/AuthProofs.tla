------------------------------ MODULE AuthProofs ------------------------------
(***************************************************************************)
(* Proofs about Auth, for any number of users, sessions, tokens, links and *)
(* handlers: Consistent is inductive, and with it type correctness and the *)
(* safety properties the runs check.                                       *)
(*                                                                         *)
(* Each lemma of the first part covers the actions of one group and has    *)
(* one step per action.  A step must look at every part of Consistent,     *)
(* since all of them speak of the locals of the handler that moves, so the *)
(* definitions of the parts are in use throughout; a leaf names only its   *)
(* action and the repository operations that action calls.                 *)
(***************************************************************************)
EXTENDS AuthInvariant, TLAPS

USE DEF At, accountVars, sessionVars, tokenVars, linkVars, historyVars, localVars

\* A handler that throws forgets its locals and has written nothing.
LEMMA RejectConsistent ==
    ASSUME Consistent, NEW r \in Request, Reject(r)
    PROVE  Consistent'
BY DEF Consistent, TypeOK, Label, Rows, Locals, RefreshLabel, UserLabel,
       OwnSessionLabel, Debts, ClosingLabel, ClosedStaysClosed,
       ExchangedIsRevoked, LinkSetsPasswordFirst, Reject, Leave

\* The handlers of Sessions preserve Consistent.
LEMMA SessionStepConsistent ==
    ASSUME Consistent, NEW r \in Request, SessionStep(r)
    PROVE  Consistent'
<1> USE NoneAssumption, TokensAreNotLinks
    DEF Consistent, TypeOK, Label, Rows, Locals, RefreshLabel, UserLabel,
       OwnSessionLabel, Debts, ClosingLabel, ClosedStaysClosed,
       ExchangedIsRevoked, LinkSetsPasswordFirst
<1>1. CASE RefreshReuse(r)
  BY <1>1 DEF RefreshReuse, deactivateSession, Goto
<1>2. CASE RefreshReuseRevoke(r)
  BY <1>2 DEF RefreshReuseRevoke, revokeAllSessionRefreshTokens, Leave, TokensOf
<1>3. CASE RefreshExpired(r)
  BY <1>3 DEF RefreshExpired, revokeRefreshToken, Leave
<1>4. CASE RefreshSession(r)
  <2>1. CASE ses[r] \in isActive
    BY <1>4, <2>1 DEF RefreshSession, Goto
  <2>2. CASE ses[r] \notin isActive
    BY <1>4, <2>2, RejectConsistent DEF RefreshSession, Reject
  <2>3. QED
    BY <2>1, <2>2
<1>5. CASE RefreshRevoke(r)
  BY <1>5 DEF RefreshRevoke, revokeRefreshToken, Goto
<1>6. CASE \E t \in TokenId : RefreshCreate(r, t)
  BY <1>6 DEF RefreshCreate, createRefreshToken
<1>7. CASE RefreshReply(r)
  BY <1>7 DEF RefreshReply, Leave
<1>8. CASE AdmitLogout(r)
  BY <1>8 DEF AdmitLogout, Admit
<1>9. CASE AdmitLogoutAll(r)
  BY <1>9 DEF AdmitLogoutAll, Admit, SessionsOf
<1>10. CASE AdmitRevoke(r)
  BY <1>10 DEF AdmitRevoke, Admit
<1>11. CASE AdmitDelete(r)
  BY <1>11 DEF AdmitDelete, Admit
<1>12. CASE GuardRefuse(r)
  BY <1>12 DEF GuardRefuse, Reject, Leave
<1>13. CASE LogoutRevoke(r)
  BY <1>13 DEF LogoutRevoke, revokeAllSessionRefreshTokens, TokensOf, Goto
<1>14. CASE LogoutDeactivate(r)
  BY <1>14 DEF LogoutDeactivate, deactivateSession, Acknowledge, Leave
<1>15. CASE \E s \in SessionId : RevokeFind(r, s)
  <2>1. PICK s \in SessionId : RevokeFind(r, s)
    BY <1>15
  <2>2. CASE userId[s] = usr[r]
    BY <2>1, <2>2 DEF RevokeFind, Owns
  <2>3. CASE userId[s] # usr[r]
    BY <2>1, <2>3, RejectConsistent DEF RevokeFind, Owns, Reject
  <2>4. QED
    BY <2>2, <2>3
<1>16. CASE RevokeDeactivate(r)
  BY <1>16 DEF RevokeDeactivate, deactivateSession, Goto
<1>17. CASE RevokeTokens(r)
  BY <1>17 DEF RevokeTokens, revokeAllSessionRefreshTokens, TokensOf,
     Acknowledge, Leave
<1>18. CASE DeleteAccount(r)
  BY <1>18 DEF DeleteAccount, Leave
<1>19. CASE FindSessions(r)
  <2>1. CASE findActiveSessions(usr[r]) = {}
    <3>1. owed[r] \cap isActive = {}
      BY <1>19, <2>1 DEF FindSessions, findActiveSessions
    <3>2. Acknowledge(r)
      BY <1>19, <2>1 DEF FindSessions
    <3>3. UNCHANGED <<accountVars, sessionVars, tokenVars, linkVars, delivered>>
      BY <1>19 DEF FindSessions
    <3>4. QED
      BY <3>1, <3>2, <3>3, <1>19 DEF FindSessions, Acknowledge, Leave
  <2>2. CASE findActiveSessions(usr[r]) # {}
    BY <1>19, <2>2 DEF FindSessions, findActiveSessions
  <2>3. QED
    BY <2>1, <2>2
<1>20. CASE CloseFound(r)
  BY <1>20 DEF CloseFound, TokensOf, Acknowledge, Leave
<1>21. QED
  BY <1>1, <1>2, <1>3, <1>4, <1>5, <1>6, <1>7, <1>8, <1>9, <1>10, <1>11, <1>12,
     <1>13, <1>14, <1>15, <1>16, <1>17, <1>18, <1>19, <1>20 DEF SessionStep

\* The handlers of Passwords preserve Consistent.
LEMMA PasswordStepConsistent ==
    ASSUME Consistent, NEW r \in Request, PasswordStep(r)
    PROVE  Consistent'
<1> USE NoneAssumption, TokensAreNotLinks
    DEF Consistent, TypeOK, Label, Rows, Locals, RefreshLabel, UserLabel,
       OwnSessionLabel, Debts, ClosingLabel, ClosedStaysClosed,
       ExchangedIsRevoked, LinkSetsPasswordFirst
<1>1. CASE LoginProvider(r)
  <2>1. CASE Leave(r)
    <3>1. Reject(r)
      BY <1>1, <2>1 DEF LoginProvider, Reject
    <3>2. QED
      BY <3>1, RejectConsistent
  <2>2. CASE ~Leave(r)
    BY <1>1, <2>2 DEF LoginProvider
  <2>3. QED
    BY <2>1, <2>2
<1>2. CASE \E s \in SessionId : LoginSession(r, s)
  BY <1>2 DEF LoginSession, createSession
<1>3. CASE \E t \in TokenId : LoginToken(r, t)
  BY <1>3 DEF LoginToken, createRefreshToken
<1>4. CASE LoginStamp(r)
  BY <1>4 DEF LoginStamp, Leave
<1>5. CASE AdmitChange(r)
  BY <1>5 DEF AdmitChange, Admit, SessionsOf
<1>6. CASE ChangeFind(r)
  <2>1. CASE Goto(r, "change.update")
    BY <1>6, <2>1 DEF ChangeFind, Goto
  <2>2. CASE Leave(r)
    BY <1>6, <2>2, RejectConsistent DEF ChangeFind, Reject
  <2>3. QED
    BY <1>6, <2>1, <2>2 DEF ChangeFind
<1>7. CASE ChangeUpdate(r)
  BY <1>7 DEF ChangeUpdate, SetPassword, updateAuthProviderPassword
<1>8. CASE \E k \in Link : ForgotCreate(r, k)
  BY <1>8 DEF ForgotCreate, createPasswordResetToken
<1>9. CASE ForgotMail(r)
  BY <1>9 DEF ForgotMail, Leave
<1>10. CASE ResetUpdate(r)
  BY <1>10 DEF ResetUpdate, SetPassword, updateAuthProviderPassword
<1>11. CASE ResetMark(r)
  BY <1>11 DEF ResetMark, markPasswordResetTokenUsed, Goto
<1>12. QED
  BY <1>1, <1>2, <1>3, <1>4, <1>5, <1>6, <1>7, <1>8, <1>9, <1>10, <1>11 DEF
     PasswordStep

\* An arriving request preserves Consistent.
LEMMA ArrivalConsistent ==
    ASSUME Consistent, NEW r \in Request, Arrive(r)
    PROVE  Consistent'
<1> USE NoneAssumption, TokensAreNotLinks
    DEF Consistent, TypeOK, Label, Rows, Locals, RefreshLabel, UserLabel,
       OwnSessionLabel, Debts, ClosingLabel, ClosedStaysClosed,
       ExchangedIsRevoked, LinkSetsPasswordFirst
<1>1. CASE \E t \in TokenId : Refresh(r, t)
  BY <1>1 DEF Refresh
<1>2. CASE \E s \in SessionId : GuardUser(r, s)
  BY <1>2 DEF GuardUser, Holds, TokensOf
<1>3. CASE \E u \in User : Login(r, u)
  BY <1>3 DEF Login
<1>4. CASE \E u \in User : Forgot(r, u)
  BY <1>4 DEF Forgot
<1>5. CASE \E k \in Link : Reset(r, k)
  BY <1>5 DEF Reset, SessionsOf
<1>6. QED
  BY <1>1, <1>2, <1>3, <1>4, <1>5 DEF Arrive, SessionArrival, PasswordArrival

\* What happens besides the handlers' own queries: a process dies, a token
\* runs out, or nothing.
LEMMA FaultConsistent ==
    ASSUME Consistent,
           \/ \E r \in Request : Abort(r)
           \/ \E t \in TokenId : Expire(t)
           \/ UNCHANGED vars
    PROVE  Consistent'
<1>1. CASE \E r \in Request : Abort(r)
  BY RejectConsistent, <1>1 DEF Abort
<1>2. CASE ~\E r \in Request : Abort(r)
  BY <1>2 DEF Expire, vars, Consistent, TypeOK, Label, Rows, Locals, RefreshLabel,
     UserLabel, OwnSessionLabel, Debts, ClosingLabel, ClosedStaysClosed,
     ExchangedIsRevoked, LinkSetsPasswordFirst
<1>3. QED
  BY <1>1, <1>2

-----------------------------------------------------------------------------
\* Consistent is an inductive invariant of Auth, for every value of its
\* constants: it holds initially and every step of every handler, every crash
\* and every expiry keeps it.
THEOREM ConsistentInvariant == Spec => []Consistent
<1>1. Init => Consistent
  BY NoneAssumption
  DEF Init, Consistent, TypeOK, Label, Rows, Locals, RefreshLabel, UserLabel,
      OwnSessionLabel, Debts, ClosingLabel, ClosedStaysClosed,
      ExchangedIsRevoked, LinkSetsPasswordFirst
<1>2. ASSUME Consistent, NEW r \in Request, Arrive(r) \/ Step(r)
      PROVE  Consistent'
  BY <1>2, ArrivalConsistent, SessionStepConsistent, PasswordStepConsistent DEF Step
<1>3. Consistent /\ [Next]_vars => Consistent'
  BY <1>2, FaultConsistent DEF Next
<1>4. QED
  BY <1>1, <1>3, PTL DEF Spec

\* Type correctness of the tables and of every handler's locals.
THEOREM TypeCorrect == Spec => []TypeOK
BY ConsistentInvariant, PTL DEF Consistent

\* No handler, however late, makes a session active again that a logout, a
\* revocation or a password change has reported as ended.
THEOREM ClosedSessionsStayClosed == Spec => []ClosedStaysClosed
BY ConsistentInvariant, PTL DEF Consistent

\* An exchanged refresh token is revoked, and its successor is in its session.
THEOREM ExchangedTokensAreRevoked == Spec => []ExchangedIsRevoked
BY ConsistentInvariant, PTL DEF Consistent

\* A reset link is spent only after it has set a password.
THEOREM LinksSetPasswordsFirst == Spec => []LinkSetsPasswordFirst
BY ConsistentInvariant, PTL DEF Consistent

-----------------------------------------------------------------------------
(* Forks.                                                                  *)

\* A step that creates no token and opens no session leaves Family alone.
LEMMA FamilyFrame ==
    ASSUME Family, UNCHANGED <<sessionId, parent>>,
           \A r \in Request : pc'[r] = "login.token" =>
               pc[r] = "login.token" /\ ses'[r] = ses[r]
    PROVE  Family'
BY DEF Family, Childless, Twins

\* The first token of a session starts its chain.
LEMMA LoginTokenFamily ==
    ASSUME Consistent, Family, NEW r \in Request, NEW n \in TokenId,
           LoginToken(r, n)
    PROVE  Family'
<1> USE DEF Consistent, TypeOK, Rows, Locals, OwnSessionLabel, UserLabel,
            ExchangedIsRevoked, LoginToken, createRefreshToken
<1>1. /\ sessionId[n] = None
      /\ sessionId' = [sessionId EXCEPT ![n] = ses[r]]
      /\ parent' = [parent EXCEPT ![n] = None]
  OBVIOUS
<1>2. ses[r] \in SessionId /\ \A t \in TokenId : sessionId[t] # ses[r]
  BY DEF Family
<1>3. \A q \in Request : pc'[q] = "login.token" =>
        /\ q # r
        /\ pc[q] = "login.token"
        /\ ses'[q] = ses[q]
        /\ ses[q] # ses[r]
  BY DEF Family
<1>4. ASSUME NEW q \in Request, pc'[q] = "login.token"
      PROVE  /\ \A t \in TokenId : sessionId'[t] # ses'[q]
             /\ \A p \in Request \ {q} : pc'[p] = "login.token" => ses'[p] # ses'[q]
  BY <1>1, <1>3, <1>4 DEF Family
<1>5. \A t \in TokenId : parent[t] = None => parent'[t] = None
  BY <1>1
<1>6. \A t \in TokenId : parent'[t] = parent[t]
  BY <1>1
<1>7. ASSUME NEW t \in TokenId, NEW v \in TokenId, t # v,
             sessionId'[t] = sessionId'[v], Childless(t)', Childless(v)'
      PROVE  \E a, b \in TokenId : Twins(a, b)' /\ sessionId'[a] = sessionId'[t]
  <2>1. t # n /\ v # n
    BY <1>1, <1>2, <1>7
  <2>2. sessionId[t] = sessionId[v] /\ Childless(t) /\ Childless(v)
    BY <1>1, <1>6, <1>7, <2>1 DEF Childless
  <2>3. PICK a \in TokenId, b \in TokenId : Twins(a, b) /\ sessionId[a] = sessionId[t]
    BY <1>7, <2>2 DEF Family
  <2>4. sessionId[a] # None
    BY <2>2, <2>3 DEF Childless
  <2>5. Twins(a, b)' /\ sessionId'[a] = sessionId'[t]
    BY <1>1, <1>6, <2>1, <2>3, <2>4 DEF Twins
  <2>6. QED
    BY <2>5
<1>8. QED
  BY <1>4, <1>7 DEF Family

\* A refresh either extends the chain at its end or gives a token its second
\* child.
LEMMA RefreshCreateFamily ==
    ASSUME Consistent, Family, NEW r \in Request, NEW n \in TokenId,
           RefreshCreate(r, n)
    PROVE  Family'
<1> DEFINE old == tok[r]
<1>1. /\ old \in TokenId
      /\ ses[r] \in SessionId
      /\ sessionId[old] = ses[r]
      /\ sessionId[n] = None
      /\ n # old
  BY NoneAssumption DEF Consistent, Locals, RefreshLabel, RefreshCreate,
     createRefreshToken
<1>2. /\ sessionId' = [sessionId EXCEPT ![n] = ses[r]]
      /\ parent' = [parent EXCEPT ![n] = old]
      /\ sessionId \in [TokenId -> SessionId \cup {None}]
      /\ parent \in [TokenId -> TokenId \cup {None}]
  BY DEF Consistent, TypeOK, RefreshCreate, createRefreshToken
<1>3. \A q \in Request : pc'[q] = "login.token" =>
        pc[q] = "login.token" /\ ses'[q] = ses[q]
  BY DEF Consistent, TypeOK, RefreshCreate
<1>4. ASSUME NEW q \in Request, pc'[q] = "login.token"
      PROVE  /\ \A t \in TokenId : sessionId'[t] # ses'[q]
             /\ \A p \in Request \ {q} : pc'[p] = "login.token" => ses'[p] # ses'[q]
  BY <1>1, <1>2, <1>3, <1>4 DEF Family
<1>5. \A v \in TokenId : parent[v] # n
  BY <1>1, <1>2, NoneAssumption DEF Consistent, ExchangedIsRevoked, Rows
<1>6. \A v \in TokenId \ {n} : parent'[v] = parent[v] /\ sessionId'[v] = sessionId[v]
  BY <1>2
<1>7. parent'[n] = old /\ sessionId'[n] = ses[r] /\ old # None
  BY <1>1, <1>2, NoneAssumption
<1>8. ASSUME NEW t \in TokenId, NEW v \in TokenId, t # v,
             sessionId'[t] = sessionId'[v], Childless(t)', Childless(v)'
      PROVE  \E a, b \in TokenId : Twins(a, b)' /\ sessionId'[a] = sessionId'[t]
  <2>1. t # old /\ v # old
    BY <1>7, <1>8 DEF Childless
  <2>2. CASE \E b \in TokenId : parent[b] = old /\ sessionId'[t] = ses[r]
    <3>1. PICK b \in TokenId : parent[b] = old /\ sessionId'[t] = ses[r]
      BY <2>2
    <3>2. b # n
      BY <1>1, <1>7, <3>1, NoneAssumption DEF Consistent, Rows
    <3>3. Twins(n, b)' /\ sessionId'[n] = sessionId'[t]
      BY <1>6, <1>7, <3>1, <3>2 DEF Twins
    <3>4. QED
      BY <3>3
  <2>3. CASE t # n /\ v # n
    <3>1. sessionId[t] = sessionId[v] /\ Childless(t) /\ Childless(v)
      BY <1>5, <1>6, <1>8, <2>3, NoneAssumption, <1>1, <1>2 DEF Childless,
         Consistent, Rows
    <3>2. PICK a \in TokenId, b \in TokenId : Twins(a, b) /\ sessionId[a] = sessionId[t]
      BY <1>8, <3>1 DEF Family
    <3>3. a # n /\ b # n
      BY <1>1, <3>2, <3>1, NoneAssumption DEF Twins, Consistent, Rows, Childless
    <3>4. Twins(a, b)' /\ sessionId'[a] = sessionId'[t]
      BY <1>6, <2>3, <3>2, <3>3 DEF Twins
    <3>5. QED
      BY <3>4
  <2>4. ASSUME NEW w \in TokenId, w # n, w # old, sessionId[w] = ses[r],
               Childless(w)', \A b \in TokenId : parent[b] # old
        PROVE  \E a, b \in TokenId : Twins(a, b)' /\ sessionId'[a] = ses[r]
    <3>1. Childless(w) /\ Childless(old)
      BY <1>1, <1>2, <1>5, <1>6, <2>4, NoneAssumption DEF Childless,
         Consistent, Rows
    <3>2. PICK a \in TokenId, b \in TokenId : Twins(a, b) /\ sessionId[a] = ses[r]
      BY <1>1, <2>4, <3>1 DEF Family
    <3>3. a # n /\ b # n
      BY <1>1, <3>2, NoneAssumption DEF Twins, Consistent, Rows
    <3>4. QED
      BY <1>6, <3>2, <3>3 DEF Twins
  <2>5. QED
    BY <1>6, <1>7, <1>8, <2>1, <2>2, <2>3, <2>4
<1>9. QED
  BY <1>4, <1>8 DEF Family

\* A new session has no tokens yet.
LEMMA LoginSessionFamily ==
    ASSUME Consistent, Family, NEW r \in Request, NEW s \in SessionId,
           LoginSession(r, s)
    PROVE  Family'
<1>1. UNCHANGED <<sessionId, parent>> /\ userId[s] = None
  BY DEF LoginSession, createSession
<1>2. \A t \in TokenId : sessionId[t] # s
  BY <1>1, NoneAssumption DEF Consistent, Rows
<1>3. \A q \in Request \ {r} : pc[q] = "login.token" => ses[q] # s
  BY <1>1, NoneAssumption DEF Consistent, Locals, OwnSessionLabel, UserLabel
<1>4. ses'[r] = s /\ \A q \in Request \ {r} : pc'[q] = pc[q] /\ ses'[q] = ses[q]
  BY DEF LoginSession, Consistent, TypeOK
<1>5. QED
  BY <1>1, <1>2, <1>3, <1>4 DEF Family, Childless, Twins

\* Two childless tokens of one session betray a double exchange in it, in
\* every reachable state, crashes included.
THEOREM FamilyInvariant == Spec => []Family
<1>1. Init => Family
  BY DEF Init, Family, Childless
<1>2. Consistent /\ Family /\ [Next]_vars => Family'
  <2> SUFFICES ASSUME Consistent, Family, [Next]_vars
               PROVE  Family'
    OBVIOUS
  <2> USE DEF Consistent, TypeOK
  <2>1. ASSUME NEW r \in Request, Arrive(r)
        PROVE  Family'
    BY <2>1, FamilyFrame DEF Arrive, SessionArrival, PasswordArrival, Refresh,
       GuardUser, Login, Forgot, Reset
  <2>2. ASSUME NEW r \in Request, SessionStep(r)
        PROVE  Family'
    <3>1. CASE \E t \in TokenId : RefreshCreate(r, t)
      BY <3>1, RefreshCreateFamily
    <3>2. CASE ~\E t \in TokenId : RefreshCreate(r, t)
      BY <2>2, <3>2, FamilyFrame DEF SessionStep, RefreshReuse,
         RefreshReuseRevoke, RefreshExpired, RefreshSession, RefreshRevoke,
         RefreshReply, AdmitLogout, AdmitLogoutAll, AdmitRevoke, AdmitDelete,
         Admit, GuardRefuse, LogoutRevoke, LogoutDeactivate, RevokeFind,
         RevokeDeactivate, RevokeTokens, DeleteAccount, FindSessions,
         CloseFound, Goto, Leave, Reject, Acknowledge, deactivateSession,
         revokeRefreshToken, revokeAllSessionRefreshTokens
    <3>3. QED
      BY <3>1, <3>2
  <2>3. ASSUME NEW r \in Request, PasswordStep(r)
        PROVE  Family'
    <3>1. CASE \E t \in TokenId : LoginToken(r, t)
      BY <3>1, LoginTokenFamily
    <3>2. CASE \E s \in SessionId : LoginSession(r, s)
      BY <3>2, LoginSessionFamily
    <3>3. CASE /\ ~\E t \in TokenId : LoginToken(r, t)
               /\ ~\E s \in SessionId : LoginSession(r, s)
      BY <2>3, <3>3, FamilyFrame DEF PasswordStep, LoginProvider, LoginStamp,
         AdmitChange, Admit, ChangeFind, ChangeUpdate, SetPassword,
         ForgotCreate, ForgotMail, ResetUpdate, ResetMark, Goto, Leave
    <3>4. QED
      BY <3>1, <3>2, <3>3
  <2>4. ASSUME NEW r \in Request, Abort(r)
        PROVE  Family'
    BY <2>4, FamilyFrame DEF Abort, Reject, Leave
  <2>5. ASSUME NEW t \in TokenId, Expire(t)
        PROVE  Family'
    BY <2>5, FamilyFrame DEF Expire
  <2>6. CASE UNCHANGED vars
    BY <2>6, FamilyFrame DEF vars
  <2>7. QED
    BY <2>1, <2>2, <2>3, <2>4, <2>5, <2>6 DEF Next, Step
<1>3. QED
  BY <1>1, <1>2, ConsistentInvariant, PTL DEF Spec

\* However many handlers interleave, crash and retry, two refresh tokens of
\* one session are unrevoked together only if one token was exchanged twice.
THEOREM ForksNeedDoubleExchange == Spec => []ForkNeedsDoubleExchange
<1>1. Consistent /\ Family => ForkNeedsDoubleExchange
  BY NoneAssumption DEF Consistent, ExchangedIsRevoked, Family, Childless,
     ForkNeedsDoubleExchange
<1>2. QED
  BY <1>1, ConsistentInvariant, FamilyInvariant, PTL

-----------------------------------------------------------------------------
(* Ownership.                                                              *)

\* Sessions end and tokens are revoked only on behalf of their owner, for
\* whatever rows other handlers have changed since this one read them.
THEOREM OwnersEndSessions == Spec => OnlyOwnersEnd
<1> DEFINE Ends(s) ==
             \/ s \in isActive /\ s \notin isActive'
             \/ \E t \in TokenId : sessionId[t] = s /\ t \in revokedAt' \ revokedAt
           Actor(s) ==
             \E r \in Request : pc[r] # "idle" /\ pc'[r] # pc[r] /\ ActsFor(r, s)
<1>1. ASSUME Consistent, Next
      PROVE  \A s \in SessionId : Ends(s) => Actor(s)
  <2> USE NoneAssumption DEF Consistent, TypeOK, Label
  <2>1. ASSUME NEW r \in Request, SessionStep(r),
               NEW s \in SessionId, Ends(s)
        PROVE  pc[r] # "idle" /\ pc'[r] # pc[r] /\ ActsFor(r, s)
    <3> USE <1>1, <2>1 DEF Locals, RefreshLabel, UserLabel, OwnSessionLabel, ActsFor
    <3>1. CASE RefreshReuse(r)
      BY <3>1 DEF RefreshReuse, deactivateSession, Goto
    <3>2. CASE RefreshReuseRevoke(r)
      BY <3>2 DEF RefreshReuseRevoke, revokeAllSessionRefreshTokens, TokensOf,
         Leave
    <3>3. CASE RefreshExpired(r)
      BY <3>3 DEF RefreshExpired, revokeRefreshToken, Leave
    <3>4. CASE RefreshRevoke(r)
      BY <3>4 DEF RefreshRevoke, revokeRefreshToken, Goto
    <3>5. CASE LogoutRevoke(r)
      BY <3>5 DEF LogoutRevoke, revokeAllSessionRefreshTokens, TokensOf, Goto
    <3>6. CASE LogoutDeactivate(r)
      BY <3>6 DEF LogoutDeactivate, deactivateSession, Acknowledge, Leave
    <3>7. CASE RevokeDeactivate(r)
      BY <3>7 DEF RevokeDeactivate, deactivateSession, Goto
    <3>8. CASE RevokeTokens(r)
      BY <3>8 DEF RevokeTokens, revokeAllSessionRefreshTokens, TokensOf,
         Acknowledge, Leave
    <3>9. CASE CloseFound(r)
      BY <3>9 DEF CloseFound, Debts, TokensOf, Acknowledge, Leave
    <3>10. CASE UNCHANGED <<isActive, revokedAt>>
      BY <3>10
    <3>11. QED
      BY <3>1, <3>2, <3>3, <3>4, <3>5, <3>6, <3>7, <3>8, <3>9, <3>10
      DEF SessionStep, RefreshSession, RefreshCreate, createRefreshToken,
          RefreshReply, AdmitLogout, AdmitLogoutAll, AdmitRevoke, AdmitDelete,
          Admit, GuardRefuse, Reject, RevokeFind, DeleteAccount, FindSessions
  <2>2. ASSUME NEW r \in Request, PasswordStep(r)
        PROVE  isActive \subseteq isActive' /\ revokedAt' = revokedAt
    BY <2>2 DEF PasswordStep, LoginProvider, LoginSession, createSession,
       LoginToken, createRefreshToken, LoginStamp, AdmitChange, Admit,
       ChangeFind, ChangeUpdate, ForgotCreate, ForgotMail, ResetUpdate,
       ResetMark
  <2>3. ASSUME NEW r \in Request, Arrive(r) \/ Abort(r)
        PROVE  UNCHANGED <<isActive, revokedAt>>
    BY <2>3 DEF Arrive, SessionArrival, PasswordArrival, Refresh, GuardUser,
       Login, Forgot, Reset, Abort, Reject
  <2>4. ASSUME NEW t \in TokenId, Expire(t)
        PROVE  UNCHANGED <<isActive, revokedAt>>
    BY <2>4 DEF Expire
  <2>5. QED
    BY <1>1, <2>1, <2>2, <2>3, <2>4 DEF Next, Step
<1>2. ASSUME Consistent, [Next]_vars
      PROVE  [\A s \in SessionId : Ends(s) => Actor(s)]_vars
  BY <1>1, <1>2
<1>3. QED
  BY <1>2, ConsistentInvariant, PTL DEF Spec, OnlyOwnersEnd

-----------------------------------------------------------------------------
(* Refinement.                                                             *)

\* A step that touches neither the session rows nor the reports is a stutter.
LEMMA LifecycleFrame ==
    ASSUME UNCHANGED <<userId, isActive, closed>>
    PROVE  UNCHANGED Lifecycle!vars
BY DEF Lifecycle!vars

\* The sessions in ended end and those in told are reported, all of them u's.
EndsFor(u, ended, told) ==
    /\ u \in User
    /\ ended \in SUBSET SessionId
    /\ told \in SUBSET SessionId
    /\ \A s \in ended \cup told : userId[s] = u
    /\ isActive' = isActive \ ended
    /\ told \cap isActive' = {}
    /\ closed' = closed \cup told
    /\ userId' = userId

\* Whether or not they were all active before, that is a step of SessionLifecycle.
LEMMA LifecycleEnd ==
    ASSUME NEW u, NEW ended, NEW told, EndsFor(u, ended, told)
    PROVE  Lifecycle!Next
<1> DEFINE gone == ended \cap isActive
<1>1. gone \in SUBSET SessionId
  BY DEF EndsFor
<1>2. Lifecycle!End(u, gone, told)
  BY DEF Lifecycle!End, EndsFor
<1>3. QED
  BY <1>1, <1>2 DEF Lifecycle!Next, EndsFor

\* Every step of the handlers of Sessions is a step of SessionLifecycle.
LEMMA SessionStepLifecycle ==
    ASSUME Consistent, NEW r \in Request, SessionStep(r)
    PROVE  Lifecycle!Next \/ UNCHANGED Lifecycle!vars
<1> USE NoneAssumption
    DEF Consistent, TypeOK, Rows, Locals, RefreshLabel, UserLabel,
        OwnSessionLabel, Debts, ClosingLabel, Acknowledge
<1>1. CASE RefreshReuse(r)
  <2>1. EndsFor(userId[ses[r]], {ses[r]}, {})
    BY <1>1 DEF RefreshReuse, deactivateSession, EndsFor
  <2>2. QED
    BY <2>1, LifecycleEnd
<1>2. CASE LogoutDeactivate(r)
  <2>1. EndsFor(usr[r], {ses[r]}, {ses[r]})
    BY <1>2 DEF LogoutDeactivate, deactivateSession, EndsFor
  <2>2. QED
    BY <2>1, LifecycleEnd
<1>3. CASE RevokeDeactivate(r)
  <2>1. EndsFor(usr[r], {ses[r]}, {})
    BY <1>3 DEF RevokeDeactivate, deactivateSession, EndsFor
  <2>2. QED
    BY <2>1, LifecycleEnd
<1>4. CASE RevokeTokens(r)
  <2>1. EndsFor(usr[r], {}, {ses[r]})
    BY <1>4 DEF RevokeTokens, EndsFor
  <2>2. QED
    BY <2>1, LifecycleEnd
<1>5. CASE FindSessions(r)
  <2>1. CASE findActiveSessions(usr[r]) = {}
    <3>1. /\ usr[r] \in User
          /\ owed[r] \in SUBSET SessionId
          /\ \A s \in owed[r] : userId[s] = usr[r]
      BY <1>5 DEF FindSessions
    <3>2. owed[r] \cap isActive = {}
      BY <2>1, <3>1 DEF findActiveSessions
    <3>3. EndsFor(usr[r], {}, owed[r])
      BY <1>5, <2>1, <3>1, <3>2 DEF FindSessions, EndsFor
    <3>4. QED
      BY <3>3, LifecycleEnd
  <2>2. CASE findActiveSessions(usr[r]) # {}
    BY <1>5, <2>2, LifecycleFrame DEF FindSessions
  <2>3. QED
    BY <2>1, <2>2
<1>6. CASE CloseFound(r)
  <2>1. EndsFor(usr[r], ids[r], owed[r])
    BY <1>6 DEF CloseFound, EndsFor
  <2>2. QED
    BY <2>1, LifecycleEnd
<1>7. CASE UNCHANGED <<userId, isActive, closed>>
  BY <1>7, LifecycleFrame
<1>8. QED
  BY <1>1, <1>2, <1>3, <1>4, <1>5, <1>6, <1>7
  DEF SessionStep, RefreshReuseRevoke, RefreshExpired, RefreshSession,
      RefreshRevoke, RefreshCreate, RefreshReply, AdmitLogout, AdmitLogoutAll,
      AdmitRevoke, AdmitDelete, Admit, GuardRefuse, Reject, LogoutRevoke,
      RevokeFind, DeleteAccount

\* However the handlers interleave, crash and act on rows that others have
\* changed, the session table does what SessionLifecycle allows: sessions are
\* opened under fresh ids, ended for one user at a time, reported only once
\* they have ended, and never revived.
THEOREM LifecycleImplemented == Spec => ImplementsLifecycle
<1>1. Init => Lifecycle!Init
  BY DEF Init, Lifecycle!Init
<1>2. ASSUME Consistent, [Next]_vars
      PROVE  [Lifecycle!Next]_(Lifecycle!vars)
  <2>1. ASSUME NEW r \in Request, SessionStep(r)
        PROVE  Lifecycle!Next \/ UNCHANGED Lifecycle!vars
    BY <1>2, <2>1, SessionStepLifecycle
  <2>2. ASSUME NEW r \in Request, NEW s \in SessionId, LoginSession(r, s)
        PROVE  Lifecycle!Next
    <3>1. usr[r] \in User
      BY <1>2, <2>2 DEF Consistent, Locals, UserLabel, LoginSession
    <3>2. Lifecycle!Open(usr[r], s)
      BY <2>2 DEF LoginSession, createSession, Lifecycle!Open
    <3>3. QED
      BY <3>1, <3>2 DEF Lifecycle!Next
  <2>3. ASSUME NEW r \in Request, PasswordStep(r),
               ~\E s \in SessionId : LoginSession(r, s)
        PROVE  UNCHANGED Lifecycle!vars
    BY <2>3, LifecycleFrame
    DEF PasswordStep, LoginProvider, LoginToken, LoginStamp, AdmitChange, Admit,
        ChangeFind, ChangeUpdate, ForgotCreate, ForgotMail, ResetUpdate, ResetMark
  <2>4. ASSUME NEW r \in Request, Arrive(r) \/ Abort(r)
        PROVE  UNCHANGED Lifecycle!vars
    BY <2>4, LifecycleFrame
    DEF Arrive, SessionArrival, PasswordArrival, Refresh, GuardUser, Login,
        Forgot, Reset, Abort, Reject
  <2>5. ASSUME NEW t \in TokenId, Expire(t)
        PROVE  UNCHANGED Lifecycle!vars
    BY <2>5, LifecycleFrame DEF Expire
  <2>6. CASE UNCHANGED vars
    BY <2>6, LifecycleFrame DEF vars
  <2>7. QED
    BY <1>2, <2>1, <2>2, <2>3, <2>4, <2>5, <2>6 DEF Next, Step
<1>3. QED
  BY <1>1, <1>2, ConsistentInvariant, PTL
  DEF Spec, ImplementsLifecycle, Lifecycle!Spec
=============================================================================
