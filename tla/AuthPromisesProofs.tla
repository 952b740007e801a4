-------------------------- MODULE AuthPromisesProofs ---------------------------
(***************************************************************************)
(* Proofs about what Auth promises under a hypothesis on how it is used.   *)
(* When no handler dies (NoCrash), no client is stranded.  When requests   *)
(* do not overlap (OneAtATime), although their handlers may die at any     *)
(* query, the documented promises hold and an exchange of refresh tokens   *)
(* is one indivisible step.                                                *)
(***************************************************************************)
EXTENDS AuthProofs

USE DEF At, accountVars, sessionVars, tokenVars, linkVars, historyVars, localVars

-----------------------------------------------------------------------------
(* Revokers.                                                               *)

\* A handler that throws holds on to nothing.
LEMMA RejectRevokers ==
    ASSUME Consistent, Revokers, NEW r \in Request, Reject(r)
    PROVE  Revokers'
BY DEF Consistent, TypeOK, Revokers, Reject, Leave

\* The handlers of Sessions preserve Revokers.
LEMMA SessionStepRevokers ==
    ASSUME Consistent, Revokers, NEW r \in Request, SessionStep(r)
    PROVE  Revokers'
<1> USE NoneAssumption
    DEF Consistent, TypeOK, Rows, Locals, RefreshLabel, Revokers
<1>1. CASE RefreshReuse(r)
  BY <1>1 DEF RefreshReuse, deactivateSession, Goto
<1>2. CASE RefreshReuseRevoke(r)
  BY <1>2 DEF RefreshReuseRevoke, revokeAllSessionRefreshTokens, Leave, TokensOf
<1>3. CASE RefreshExpired(r)
  BY <1>3 DEF RefreshExpired, revokeRefreshToken, Leave
<1>4. CASE RefreshSession(r)
  BY <1>4 DEF RefreshSession, Goto, Leave
<1>5. CASE RefreshRevoke(r)
  BY <1>5 DEF RefreshRevoke, revokeRefreshToken, Goto
<1>6. CASE \E t \in TokenId : RefreshCreate(r, t)
  BY <1>6 DEF RefreshCreate, createRefreshToken
<1>7. CASE RefreshReply(r)
  BY <1>7 DEF RefreshReply, Leave
<1>8. CASE AdmitLogout(r) \/ AdmitLogoutAll(r) \/ AdmitRevoke(r) \/ AdmitDelete(r)
  BY <1>8 DEF AdmitLogout, AdmitLogoutAll, AdmitRevoke, AdmitDelete, Admit
<1>9. CASE GuardRefuse(r)
  BY <1>9, RejectRevokers DEF GuardRefuse
<1>10. CASE LogoutRevoke(r)
  BY <1>10 DEF LogoutRevoke, revokeAllSessionRefreshTokens, TokensOf, Goto,
     UserLabel, OwnSessionLabel
<1>11. CASE LogoutDeactivate(r)
  BY <1>11 DEF LogoutDeactivate, deactivateSession, Acknowledge, Leave
<1>12. CASE \E s \in SessionId : RevokeFind(r, s)
  BY <1>12 DEF RevokeFind, Leave
<1>13. CASE RevokeDeactivate(r)
  BY <1>13 DEF RevokeDeactivate, deactivateSession, Goto
<1>14. CASE RevokeTokens(r)
  BY <1>14 DEF RevokeTokens, revokeAllSessionRefreshTokens, TokensOf,
     Acknowledge, Leave, UserLabel, OwnSessionLabel
<1>15. CASE DeleteAccount(r)
  BY <1>15 DEF DeleteAccount, Leave
<1>16. CASE FindSessions(r)
  BY <1>16 DEF FindSessions, Acknowledge, Leave
<1>17. CASE CloseFound(r)
  BY <1>17 DEF CloseFound, TokensOf, Acknowledge, Leave
<1>18. QED
  BY <1>1, <1>2, <1>3, <1>4, <1>5, <1>6, <1>7, <1>8, <1>9, <1>10, <1>11, <1>12,
     <1>13, <1>14, <1>15, <1>16, <1>17 DEF SessionStep

\* The handlers of Passwords preserve Revokers.
LEMMA PasswordStepRevokers ==
    ASSUME Consistent, Revokers, NEW r \in Request, PasswordStep(r)
    PROVE  Revokers'
<1> USE NoneAssumption
    DEF Consistent, TypeOK, Rows, Locals, RefreshLabel, Revokers
<1>1. CASE \E s \in SessionId : LoginSession(r, s)
  BY <1>1 DEF LoginSession, createSession
<1>2. CASE \E t \in TokenId : LoginToken(r, t)
  BY <1>2 DEF LoginToken, createRefreshToken, UserLabel, OwnSessionLabel
<1>3. CASE LoginProvider(r) \/ ChangeFind(r)
  BY <1>3 DEF LoginProvider, ChangeFind, Goto, Leave
<1>4. CASE LoginStamp(r) \/ ForgotMail(r)
  BY <1>4 DEF LoginStamp, ForgotMail, Leave
<1>5. CASE AdmitChange(r)
  BY <1>5 DEF AdmitChange, Admit
<1>6. CASE ChangeUpdate(r) \/ ResetUpdate(r)
  BY <1>6 DEF ChangeUpdate, ResetUpdate, SetPassword
<1>7. CASE \E k \in Link : ForgotCreate(r, k)
  BY <1>7 DEF ForgotCreate
<1>8. CASE ResetMark(r)
  BY <1>8 DEF ResetMark, Goto
<1>9. QED
  BY <1>1, <1>2, <1>3, <1>4, <1>5, <1>6, <1>7, <1>8 DEF PasswordStep

\* Only tokens that exist are revoked; a token found expired has expired, and
\* a session found out reusing a token stays ended.
THEOREM RevokersInvariant == Spec => []Revokers
<1>1. Init => Revokers
  BY DEF Init, Revokers
<1>2. Consistent /\ Revokers /\ [Next]_vars => Revokers'
  <2> SUFFICES ASSUME Consistent, Revokers, [Next]_vars
               PROVE  Revokers'
    OBVIOUS
  <2>1. ASSUME NEW r \in Request, Arrive(r)
        PROVE  Revokers'
    BY <2>1 DEF Consistent, TypeOK, Revokers, Arrive, SessionArrival,
       PasswordArrival, Refresh, GuardUser, Login, Forgot, Reset
  <2>2. ASSUME NEW r \in Request, Abort(r)
        PROVE  Revokers'
    BY <2>2, RejectRevokers DEF Abort
  <2>3. ASSUME NEW t \in TokenId, Expire(t)
        PROVE  Revokers'
    BY <2>3 DEF Revokers, Expire
  <2>4. CASE UNCHANGED vars
    BY <2>4 DEF Revokers, vars
  <2>5. QED
    BY <2>1, <2>2, <2>3, <2>4, SessionStepRevokers, PasswordStepRevokers
    DEF Next, Step
<1>3. QED
  BY <1>1, <1>2, ConsistentInvariant, PTL DEF Spec

-----------------------------------------------------------------------------
(* No client is stranded.                                                  *)

\* A session keeps its tokens and the handlers that attend to it.
LEMMA SuppliedFrame ==
    ASSUME Supplied, isActive' \subseteq isActive,
           \A s \in isActive : Usable(s) => Usable(s)',
           \A s \in isActive' : Attended(s) => Attended(s)' \/ Usable(s)'
    PROVE  Supplied'
BY DEF Supplied

\* A step of r that revokes nothing, and after which r still attends to what
\* it attended to, strands nobody.
LEMMA SuppliedStep ==
    ASSUME Consistent, Supplied, NEW r \in Request,
           isActive' \subseteq isActive, UNCHANGED <<sessionId, revokedAt, expired>>,
           \A q \in Request \ {r} : pc'[q] = pc[q] /\ ses'[q] = ses[q],
           pc[r] \in SupplyingLabel => ses[r] \notin isActive'
    PROVE  Supplied'
<1>1. \A s : Usable(s) => Usable(s)'
  BY DEF Usable
<1>2. ASSUME NEW s \in isActive', Attended(s)
      PROVE  Attended(s)'
  BY <1>2 DEF Attended
<1>3. QED
  BY <1>1, <1>2, SuppliedFrame

\* The handlers of Sessions strand nobody.
LEMMA SessionStepSupplied ==
    ASSUME Consistent, Revokers, Supplied, NEW r \in Request, SessionStep(r)
    PROVE  Supplied'
<1> USE NoneAssumption DEF Consistent, TypeOK, Locals, RefreshLabel, SupplyingLabel
<1>1. CASE RefreshReuse(r)
  BY <1>1, SuppliedStep DEF RefreshReuse, deactivateSession, Goto
<1>2. CASE RefreshReuseRevoke(r)
  <2> USE <1>2 DEF RefreshReuseRevoke, revokeAllSessionRefreshTokens, Leave, TokensOf
  <2>1. isActive' = isActive /\ ses[r] \notin isActive
    BY DEF Revokers
  <2>2. \A s \in isActive : Usable(s) => Usable(s)'
    BY <2>1 DEF Usable
  <2>3. \A s \in isActive' : Attended(s) => Attended(s)'
    BY <2>1 DEF Attended
  <2>4. QED
    BY <2>1, <2>2, <2>3, SuppliedFrame
<1>3. CASE RefreshExpired(r)
  <2> USE <1>3 DEF RefreshExpired, revokeRefreshToken, Leave
  <2>1. isActive' = isActive /\ tok[r] \in expired
    BY DEF Revokers
  <2>2. \A s \in isActive : Usable(s) => Usable(s)'
    BY <2>1 DEF Usable
  <2>3. \A s \in isActive' : Attended(s) => Attended(s)'
    BY <2>1 DEF Attended
  <2>4. QED
    BY <2>1, <2>2, <2>3, SuppliedFrame
<1>4. CASE RefreshSession(r)
  BY <1>4, SuppliedStep DEF RefreshSession, Goto, Leave
<1>5. CASE RefreshRevoke(r)
  <2> USE <1>5 DEF RefreshRevoke, revokeRefreshToken, Goto
  <2>1. \A s \in isActive : s # ses[r] /\ Usable(s) => Usable(s)'
    BY DEF Usable
  <2>2. \A s \in isActive : Attended(s) => Attended(s)'
    BY DEF Attended
  <2>3. Attended(ses[r])'
    BY DEF Attended
  <2>4. QED
    BY <2>1, <2>2, <2>3 DEF Supplied
<1>6. CASE \E t \in TokenId : RefreshCreate(r, t)
  <2>1. PICK n \in TokenId : RefreshCreate(r, n)
    BY <1>6
  <2> USE <2>1 DEF RefreshCreate, createRefreshToken
  <2>2. n \notin revokedAt
    BY DEF Revokers
  <2>3. \A s \in isActive : Usable(s) => Usable(s)'
    BY DEF Usable
  <2>4. \A s \in isActive : s # ses[r] /\ Attended(s) => Attended(s)'
    BY DEF Attended
  <2>5. sessionId'[n] = ses[r] /\ n \notin revokedAt'
    BY <2>2
  <2>6. \A s \in isActive : s = ses[r] => Usable(s)'
    BY <2>5 DEF Usable
  <2>7. QED
    BY <2>3, <2>4, <2>6 DEF Supplied
<1>7. CASE RefreshReply(r)
  BY <1>7, SuppliedStep DEF RefreshReply, Leave
<1>8. CASE AdmitLogout(r) \/ AdmitLogoutAll(r) \/ AdmitRevoke(r) \/ AdmitDelete(r)
  BY <1>8, SuppliedStep DEF AdmitLogout, AdmitLogoutAll, AdmitRevoke,
     AdmitDelete, Admit
<1>9. CASE GuardRefuse(r)
  BY <1>9, SuppliedStep DEF GuardRefuse, Reject, Leave
<1>10. CASE LogoutRevoke(r)
  <2> USE <1>10 DEF LogoutRevoke, revokeAllSessionRefreshTokens, TokensOf, Goto
  <2>1. \A s \in isActive : s # ses[r] /\ Usable(s) => Usable(s)'
    BY DEF Usable
  <2>2. \A s \in isActive : Attended(s) => Attended(s)'
    BY DEF Attended
  <2>3. Attended(ses[r])'
    BY DEF Attended
  <2>4. QED
    BY <2>1, <2>2, <2>3 DEF Supplied
<1>11. CASE LogoutDeactivate(r)
  BY <1>11, SuppliedStep DEF LogoutDeactivate, deactivateSession, Acknowledge, Leave
<1>12. CASE \E s \in SessionId : RevokeFind(r, s)
  BY <1>12, SuppliedStep DEF RevokeFind, Leave
<1>13. CASE RevokeDeactivate(r)
  BY <1>13, SuppliedStep DEF RevokeDeactivate, deactivateSession, Goto
<1>14. CASE RevokeTokens(r)
  <2> USE <1>14 DEF RevokeTokens, revokeAllSessionRefreshTokens, Acknowledge,
      Leave, TokensOf
  <2>1. isActive' = isActive /\ ses[r] \notin isActive
    BY DEF Debts
  <2>2. \A s \in isActive : Usable(s) => Usable(s)'
    BY <2>1 DEF Usable
  <2>3. \A s \in isActive' : Attended(s) => Attended(s)'
    BY <2>1 DEF Attended
  <2>4. QED
    BY <2>1, <2>2, <2>3, SuppliedFrame
<1>15. CASE DeleteAccount(r)
  BY <1>15, SuppliedStep DEF DeleteAccount, Leave
<1>16. CASE FindSessions(r)
  BY <1>16, SuppliedStep DEF FindSessions, Acknowledge, Leave
<1>17. CASE CloseFound(r)
  <2> USE <1>17 DEF CloseFound, Acknowledge, Leave, TokensOf
  <2>1. isActive' = isActive \ ids[r]
    OBVIOUS
  <2>2. \A s \in isActive' : Usable(s) => Usable(s)'
    BY <2>1 DEF Usable
  <2>3. \A s \in isActive' : Attended(s) => Attended(s)'
    BY <2>1 DEF Attended
  <2>4. QED
    BY <2>1, <2>2, <2>3 DEF Supplied
<1>18. QED
  BY <1>1, <1>2, <1>3, <1>4, <1>5, <1>6, <1>7, <1>8, <1>9, <1>10, <1>11, <1>12,
     <1>13, <1>14, <1>15, <1>16, <1>17 DEF SessionStep

\* The handlers of Passwords strand nobody.
LEMMA PasswordStepSupplied ==
    ASSUME Consistent, Revokers, Supplied, NEW r \in Request, PasswordStep(r)
    PROVE  Supplied'
<1> USE NoneAssumption DEF Consistent, TypeOK, Locals, SupplyingLabel
<1>1. CASE \E s \in SessionId : LoginSession(r, s)
  <2>1. PICK n \in SessionId : LoginSession(r, n)
    BY <1>1
  <2> USE <2>1 DEF LoginSession, createSession
  <2>2. \A s \in isActive : Usable(s) => Usable(s)'
    BY DEF Usable
  <2>3. \A s \in isActive : Attended(s) => Attended(s)'
    BY DEF Attended
  <2>4. Attended(n)'
    BY DEF Attended
  <2>5. QED
    BY <2>2, <2>3, <2>4 DEF Supplied
<1>2. CASE \E t \in TokenId : LoginToken(r, t)
  <2>1. PICK n \in TokenId : LoginToken(r, n)
    BY <1>2
  <2> USE <2>1 DEF LoginToken, createRefreshToken
  <2>2. n \notin revokedAt
    BY DEF Revokers
  <2>3. \A s \in isActive : Usable(s) => Usable(s)'
    BY DEF Usable
  <2>4. \A s \in isActive : s # ses[r] /\ Attended(s) => Attended(s)'
    BY DEF Attended
  <2>5. sessionId'[n] = ses[r] /\ n \notin revokedAt'
    BY <2>2
  <2>6. \A s \in isActive : s = ses[r] => Usable(s)'
    BY <2>5 DEF Usable
  <2>7. QED
    BY <2>3, <2>4, <2>6 DEF Supplied
<1>3. CASE LoginProvider(r) \/ ChangeFind(r)
  BY <1>3, SuppliedStep DEF LoginProvider, ChangeFind, Goto, Leave
<1>4. CASE LoginStamp(r) \/ ForgotMail(r)
  BY <1>4, SuppliedStep DEF LoginStamp, ForgotMail, Leave
<1>5. CASE AdmitChange(r)
  BY <1>5, SuppliedStep DEF AdmitChange, Admit
<1>6. CASE ChangeUpdate(r) \/ ResetUpdate(r)
  BY <1>6, SuppliedStep DEF ChangeUpdate, ResetUpdate, SetPassword
<1>7. CASE \E k \in Link : ForgotCreate(r, k)
  BY <1>7, SuppliedStep DEF ForgotCreate
<1>8. CASE ResetMark(r)
  BY <1>8, SuppliedStep DEF ResetMark, Goto
<1>9. QED
  BY <1>1, <1>2, <1>3, <1>4, <1>5, <1>6, <1>7, <1>8 DEF PasswordStep

\* An arriving request strands nobody.
LEMMA ArrivalSupplied ==
    ASSUME Consistent, Supplied, NEW r \in Request, Arrive(r)
    PROVE  Supplied'
<1> USE DEF Consistent, TypeOK, SupplyingLabel
<1>1. CASE \E t \in TokenId : Refresh(r, t)
  BY <1>1, SuppliedStep DEF Refresh
<1>2. CASE \E s \in SessionId : GuardUser(r, s)
  BY <1>2, SuppliedStep DEF GuardUser
<1>3. CASE \E u \in User : Login(r, u) \/ Forgot(r, u)
  BY <1>3, SuppliedStep DEF Login, Forgot
<1>4. CASE \E k \in Link : Reset(r, k)
  BY <1>4, SuppliedStep DEF Reset
<1>5. QED
  BY <1>1, <1>2, <1>3, <1>4 DEF Arrive, SessionArrival, PasswordArrival

\* While no handler dies, however many refreshes, logouts, revocations and
\* changes of password overlap, every active session has a token to go on
\* with, or a handler is about to give it one or to end it: it is enough to
\* look at the handlers that have opened a session, that have revoked a token
\* they exchange, or that have revoked the tokens of a session they end.
THEOREM SuppliedInvariant ==
    ASSUME NoCrash
    PROVE  Spec => []Supplied
<1>1. Init => Supplied
  BY DEF Init, Supplied
<1>2. Consistent /\ Revokers /\ Supplied /\ [Next]_vars => Supplied'
  <2> SUFFICES ASSUME Consistent, Revokers, Supplied, [Next]_vars
               PROVE  Supplied'
    OBVIOUS
  <2>1. ASSUME NEW t \in TokenId, Expire(t)
        PROVE  Supplied'
    BY <2>1 DEF Supplied, Usable, Attended, Expire
  <2>2. CASE UNCHANGED vars
    BY <2>2 DEF Supplied, Usable, Attended, vars
  <2>3. QED
    BY <2>1, <2>2, SessionStepSupplied, PasswordStepSupplied, ArrivalSupplied
    DEF Next, Step, Abort, NoCrash
<1>3. QED
  BY <1>1, <1>2, ConsistentInvariant, RevokersInvariant, PTL DEF Spec

\* Without crashes no client is left with an active session and no token.
THEOREM NobodyIsStranded ==
    ASSUME NoCrash
    PROVE  Spec => []NeverStranded
<1>1. Supplied => NeverStranded
  BY DEF Supplied, Usable, Attended, SupplyingLabel, NeverStranded, WorkingOn,
     TokensOf
<1>2. QED
  BY <1>1, SuppliedInvariant, PTL

-----------------------------------------------------------------------------
(* One request at a time.                                                  *)

\* A step that creates no token leaves the family of each as it is.
LEMMA ChainFrame ==
    ASSUME Chain, UNCHANGED <<parent, revokedAt>>,
           \A r \in Request :
             pc'[r] \in {"refresh.session", "refresh.revoke", "refresh.create"} =>
               pc'[r] \in {pc[r], "refresh.revoke"} /\ tok'[r] = tok[r]
                 /\ (pc'[r] = "refresh.revoke" => pc[r] \in {"refresh.session", "refresh.revoke"})
    PROVE  Chain'
BY DEF Chain, Twins

\* A handler that is alone exchanges a token no other step has touched since
\* it was read.
LEMMA ChainStep ==
    ASSUME OneAtATime, Consistent, Revokers, Chain, [Next]_vars
    PROVE  Chain'
<1> USE NoneAssumption DEF Consistent, TypeOK, Locals, RefreshLabel, OneAtATime
<1>1. ASSUME NEW r \in Request, NEW t \in TokenId, Refresh(r, t)
      PROVE  Chain'
  BY <1>1 DEF Refresh, Chain, Twins
<1>2. ASSUME NEW r \in Request, RefreshRevoke(r)
      PROVE  Chain'
  BY <1>2 DEF RefreshRevoke, revokeRefreshToken, Goto, Chain, Twins,
     ExchangedIsRevoked
<1>3. ASSUME NEW r \in Request, NEW n \in TokenId, RefreshCreate(r, n)
      PROVE  Chain'
  <2> USE <1>3 DEF RefreshCreate, createRefreshToken
  <2>1. parent' = [parent EXCEPT ![n] = tok[r]]
    OBVIOUS
  <2>2. \A v \in TokenId : parent[v] # tok[r]
    BY DEF Chain
  <2>3. \A a, b \in TokenId : ~Twins(a, b)'
    BY <2>1, <2>2 DEF Chain, Twins
  <2>4. \A q \in Request : pc'[q] = "refresh.reply"
    OBVIOUS
  <2>5. QED
    BY <2>3, <2>4 DEF Chain
<1>4. ASSUME NEW r \in Request, NEW n \in TokenId, LoginToken(r, n)
      PROVE  Chain'
  BY <1>4 DEF LoginToken, createRefreshToken, Chain, Twins
<1>5. ASSUME NEW r \in Request,
             \/ RefreshReuseRevoke(r) \/ RefreshExpired(r)
             \/ LogoutRevoke(r) \/ RevokeTokens(r) \/ CloseFound(r)
      PROVE  Chain'
  BY <1>5 DEF RefreshReuseRevoke, RefreshExpired, LogoutRevoke, RevokeTokens,
     CloseFound, revokeRefreshToken, revokeAllSessionRefreshTokens, Acknowledge,
     Goto, Leave, Chain, Twins
<1>6. ASSUME NEW r \in Request, RefreshSession(r)
      PROVE  Chain'
  BY <1>6, ChainFrame DEF RefreshSession, Goto, Leave
<1>7. ASSUME NEW r \in Request,
             \/ RefreshReuse(r) \/ RefreshReply(r)
             \/ AdmitLogout(r) \/ AdmitLogoutAll(r) \/ AdmitRevoke(r)
             \/ AdmitDelete(r) \/ GuardRefuse(r) \/ LogoutDeactivate(r)
             \/ \E s \in SessionId : RevokeFind(r, s)
             \/ RevokeDeactivate(r) \/ DeleteAccount(r) \/ FindSessions(r)
      PROVE  Chain'
  BY <1>7, ChainFrame DEF RefreshReuse, RefreshReply, AdmitLogout,
     AdmitLogoutAll, AdmitRevoke, AdmitDelete, Admit, GuardRefuse, Reject,
     LogoutDeactivate, RevokeFind, RevokeDeactivate, DeleteAccount,
     FindSessions, Acknowledge, Goto, Leave
<1>8. ASSUME NEW r \in Request,
             \/ LoginProvider(r) \/ LoginStamp(r)
             \/ \E s \in SessionId : LoginSession(r, s)
             \/ AdmitChange(r) \/ ChangeFind(r) \/ ChangeUpdate(r)
             \/ \E k \in Link : ForgotCreate(r, k)
             \/ ForgotMail(r) \/ ResetUpdate(r) \/ ResetMark(r)
      PROVE  Chain'
  BY <1>8, ChainFrame DEF LoginProvider, LoginStamp, LoginSession, AdmitChange,
     Admit, ChangeFind, ChangeUpdate, SetPassword, ForgotCreate, ForgotMail,
     ResetUpdate, ResetMark, Goto, Leave
<1>9. ASSUME NEW r \in Request,
             \/ \E s \in SessionId : GuardUser(r, s)
             \/ \E u \in User : Login(r, u) \/ Forgot(r, u)
             \/ \E k \in Link : Reset(r, k)
             \/ Abort(r)
      PROVE  Chain'
  BY <1>9, ChainFrame DEF GuardUser, Login, Forgot, Reset, Abort, Reject, Leave
<1>10. ASSUME NEW t \in TokenId, Expire(t)
       PROVE  Chain'
  BY <1>10, ChainFrame DEF Expire
<1>11. CASE UNCHANGED vars
  BY <1>11, ChainFrame DEF vars
<1>12. QED
  BY <1>1, <1>2, <1>3, <1>4, <1>5, <1>6, <1>7, <1>8, <1>9, <1>10, <1>11
  DEF Next, Arrive, Step, SessionArrival, PasswordArrival, SessionStep, PasswordStep

\* When requests do not overlap, every token has at most one successor.
THEOREM ChainInvariant ==
    ASSUME OneAtATime
    PROVE  Spec => []Chain
<1>1. Init => Chain
  BY DEF Init, Chain, Twins
<1>2. Consistent /\ Revokers /\ Chain /\ [Next]_vars => Chain'
  BY ChainStep
<1>3. QED
  BY <1>1, <1>2, ConsistentInvariant, RevokersInvariant, PTL DEF Spec

\* When requests do not overlap, no refresh token is exchanged twice, whatever
\* dies in between, so the reuse detection leaves no active session with two
\* chains of tokens.
THEOREM ReuseInvalidates ==
    ASSUME OneAtATime
    PROVE  Spec => []ReuseInvalidatesSession
<1>1. Chain => ReuseInvalidatesSession
  BY DEF Chain, ReuseInvalidatesSession
<1>2. QED
  BY <1>1, ChainInvariant, PTL

\* Two refreshes apart, a session has at most one unrevoked token.
LEMMA OneToken ==
    ASSUME Consistent, Family, Chain, NEW t \in TokenId, NEW v \in TokenId,
           sessionId[t] # None, sessionId[v] = sessionId[t],
           t \notin revokedAt, v \notin revokedAt
    PROVE  t = v
BY NoneAssumption DEF Consistent, ExchangedIsRevoked, Family, Childless, Chain

\* A handler that is alone still has the active session it found.
LEMMA ExchangingStep ==
    ASSUME OneAtATime, Consistent, Family, Chain, Exchanging, [Next]_vars
    PROVE  Exchanging'
<1> USE NoneAssumption
    DEF Consistent, TypeOK, Locals, RefreshLabel, OneAtATime, Exchanging
<1>1. ASSUME NEW r \in Request, RefreshSession(r)
      PROVE  Exchanging'
  BY <1>1 DEF RefreshSession, Goto, Leave
<1>2. ASSUME NEW r \in Request, RefreshRevoke(r)
      PROVE  Exchanging'
  <2> USE <1>2 DEF RefreshRevoke, revokeRefreshToken, Goto
  <2>1. tok[r] \notin revokedAt
    BY DEF Chain
  <2>2. \A t \in TokenId : sessionId[t] = ses[r] => t \in revokedAt'
    BY <2>1, OneToken
  <2>3. QED
    BY <2>2
<1>3. ASSUME NEW r \in Request, NEW s \in SessionId, LoginSession(r, s)
      PROVE  Exchanging'
  BY <1>3 DEF LoginSession, createSession
<1>4. ASSUME NEW r \in Request, SessionStep(r), ~RefreshSession(r), ~RefreshRevoke(r)
      PROVE  Exchanging'
  <2>1. \A q \in Request : pc'[q] \notin {"login.token", "refresh.revoke", "refresh.create"}
    BY <1>4 DEF SessionStep, RefreshReuse,
       RefreshReuseRevoke, RefreshExpired, RefreshCreate, RefreshReply,
       AdmitLogout, AdmitLogoutAll, AdmitRevoke, AdmitDelete, Admit,
       GuardRefuse, Reject, LogoutRevoke, LogoutDeactivate, RevokeFind,
       RevokeDeactivate, RevokeTokens, DeleteAccount, FindSessions, CloseFound,
       Acknowledge, Goto, Leave
  <2>2. QED
    BY <2>1
<1>5. ASSUME NEW r \in Request, PasswordStep(r),
             ~\E s \in SessionId : LoginSession(r, s)
      PROVE  Exchanging'
  <2>1. \A q \in Request : pc'[q] \notin {"login.token", "refresh.revoke", "refresh.create"}
    BY <1>5 DEF PasswordStep, LoginProvider, LoginToken,
       LoginStamp, AdmitChange, Admit, ChangeFind, ChangeUpdate, SetPassword,
       ForgotCreate, ForgotMail, ResetUpdate, ResetMark, Goto, Leave
  <2>2. QED
    BY <2>1
<1>6. ASSUME NEW r \in Request, Arrive(r) \/ Abort(r)
      PROVE  Exchanging'
  <2>1. \A q \in Request : pc'[q] \notin {"login.token", "refresh.revoke", "refresh.create"}
    BY <1>6 DEF Arrive, SessionArrival, PasswordArrival, Refresh, GuardUser,
       Login, Forgot, Reset, Abort, Reject, Leave
  <2>2. QED
    BY <2>1
<1>7. ASSUME NEW t \in TokenId, Expire(t)
      PROVE  Exchanging'
  BY <1>7 DEF Expire
<1>8. CASE UNCHANGED vars
  BY <1>8 DEF vars
<1>9. QED
  BY <1>1, <1>2, <1>3, <1>4, <1>5, <1>6, <1>7, <1>8 DEF Next, Step

\* When requests do not overlap, the session that a login opened or a refresh
\* found active is active until the handler is done with it, and an exchange
\* has revoked the only token the session had.
THEOREM ExchangingInvariant ==
    ASSUME OneAtATime
    PROVE  Spec => []Exchanging
<1>1. Init => Exchanging
  BY DEF Init, Exchanging
<1>2. Consistent /\ Family /\ Chain /\ Exchanging /\ [Next]_vars => Exchanging'
  BY ExchangingStep
<1>3. QED
  BY <1>1, <1>2, ConsistentInvariant, FamilyInvariant, ChainInvariant, PTL DEF Spec

-----------------------------------------------------------------------------
(* Changes of password.                                                    *)

\* A step of r that sets no password and acknowledges none.
LEMMA CurrentFrame ==
    ASSUME OneAtATime, Consistent, Current, NEW r \in Request,
           UNCHANGED <<passwordHash, settled, userId, openedWith>>,
           isActive' \subseteq isActive,
           pwd'[r] \in {pwd[r], 0},
           pwd'[r] # 0 => pc'[r] \in PasswordLabel /\ usr'[r] = usr[r]
                            /\ pc[r] # "idle",
           pc'[r] = "login.session" => pwd'[r] = passwordHash[usr'[r]],
           pc'[r] = "closeAll.write" =>
              \A s \in isActive' : userId[s] = usr'[r] => s \in ids'[r],
           pc'[r] \in PasswordLabel => usr'[r] \in User
    PROVE  Current'
<1> USE DEF Consistent, TypeOK, OneAtATime
<1>1. \A q \in Request : q = r
  OBVIOUS
<1>2. ChangeEndsOlderSessions'
  BY DEF Current, ChangeEndsOlderSessions
<1>3. pc'[r] \in PasswordLabel => pwd'[r] <= passwordHash'[usr'[r]]
  <2>1. CASE pwd'[r] = 0
    BY <2>1
  <2>2. CASE pwd'[r] # 0
    <3>1. pwd[r] # 0 /\ pc[r] \in PasswordLabel /\ usr'[r] = usr[r] /\ pwd'[r] = pwd[r]
      BY <2>2 DEF Current
    <3>2. QED
      BY <3>1 DEF Current
  <2>3. QED
    BY <2>1, <2>2
<1>4. QED
  BY <1>1, <1>2, <1>3 DEF Current

\* A change is acknowledged once no session of its user is active.
LEMMA AcknowledgeCurrent ==
    ASSUME OneAtATime, Consistent, Current, NEW r \in Request, Acknowledge(r),
           pc[r] \in PasswordLabel, usr[r] \in User,
           UNCHANGED <<passwordHash, userId, openedWith>>,
           isActive' \subseteq isActive,
           \A s \in isActive' : userId[s] # usr[r]
    PROVE  Current'
<1> USE DEF Consistent, TypeOK, OneAtATime, Acknowledge, Leave
<1>1. settled' \in [User -> Nat] /\ \A u \in User : settled'[u] <= passwordHash[u]
  BY DEF Current
<1>2. \A u \in User : u # usr[r] => settled'[u] = settled[u]
  OBVIOUS
<1>3. \A q \in Request : pc'[q] = "idle" /\ pwd'[q] = 0
  OBVIOUS
<1>4. ASSUME NEW s \in isActive'
      PROVE  openedWith'[s] >= settled'[userId'[s]]
  <2>1. s \in isActive /\ userId[s] \in User /\ userId[s] # usr[r]
    BY NoneAssumption DEF Rows
  <2>2. QED
    BY <1>2, <2>1 DEF Current, ChangeEndsOlderSessions
<1>5. QED
  BY <1>1, <1>3, <1>4 DEF Current, ChangeEndsOlderSessions, PasswordLabel

\* An acknowledgement by a handler that has set no password settles nothing.
LEMMA NothingSettled ==
    ASSUME Consistent, Current, NEW r \in Request, Acknowledge(r),
           pc[r] \notin PasswordLabel
    PROVE  settled' = settled
BY DEF Consistent, TypeOK, Current, Acknowledge

\* A handler that replaces the hash moves on with the new password.
LEMMA SetPasswordCurrent ==
    ASSUME OneAtATime, Consistent, Current, NEW r \in Request,
           NEW label \in {"closeAll.find", "reset.mark"}, SetPassword(r, label),
           usr[r] \in User, UNCHANGED <<sessionVars, settled>>
    PROVE  Current'
<1> USE DEF Consistent, TypeOK, OneAtATime, SetPassword, updateAuthProviderPassword
<1>1. \A u \in User : passwordHash[u] <= passwordHash'[u]
  OBVIOUS
<1>2. \A u \in User : settled[u] <= passwordHash'[u]
  BY <1>1 DEF Current
<1>3. \A q \in Request : pc'[q] = label /\ usr'[q] = usr[r] /\ pwd'[q] = passwordHash'[usr[r]]
  OBVIOUS
<1>4. ChangeEndsOlderSessions'
  BY DEF Current, ChangeEndsOlderSessions
<1>5. label \in PasswordLabel /\ label # "login.session" /\ label # "closeAll.write"
  BY DEF PasswordLabel
<1>6. \A q \in Request : pwd'[q] <= passwordHash'[usr'[q]]
  BY <1>3
<1>7. QED
  BY <1>2, <1>3, <1>4, <1>5, <1>6 DEF Current

\* The handlers of Sessions keep what is current.
LEMMA SessionStepCurrent ==
    ASSUME OneAtATime, Consistent, Current, NEW r \in Request, SessionStep(r)
    PROVE  Current'
<1> USE DEF Consistent, TypeOK, Locals, UserLabel, PasswordLabel
<1>1. CASE LogoutDeactivate(r) \/ RevokeTokens(r)
  <2>1. settled' = settled
    BY <1>1, NothingSettled DEF LogoutDeactivate, RevokeTokens
  <2>2. QED
    BY <1>1, <2>1, CurrentFrame DEF LogoutDeactivate, RevokeTokens,
       deactivateSession, Acknowledge, Leave
<1>2. CASE FindSessions(r)
  <2>1. CASE findActiveSessions(usr[r]) = {}
    <3>1. \A s \in isActive : userId[s] # usr[r]
      BY <2>1 DEF findActiveSessions
    <3>2. QED
      BY <1>2, <2>1, <3>1, AcknowledgeCurrent DEF FindSessions
  <2>2. CASE findActiveSessions(usr[r]) # {}
    BY <1>2, <2>2, CurrentFrame DEF FindSessions, findActiveSessions
  <2>3. QED
    BY <2>1, <2>2
<1>3. CASE CloseFound(r)
  <2>1. \A s \in isActive' : userId[s] # usr[r]
    BY <1>3 DEF CloseFound, Current
  <2>2. QED
    BY <1>3, <2>1, AcknowledgeCurrent DEF CloseFound
<1>4. CASE AdmitLogout(r) \/ AdmitLogoutAll(r) \/ AdmitRevoke(r) \/ AdmitDelete(r)
  <2>1. pwd[r] = 0
    BY <1>4 DEF Current, AdmitLogout, AdmitLogoutAll, AdmitRevoke, AdmitDelete, Admit
  <2>2. QED
    BY <1>4, <2>1, CurrentFrame DEF AdmitLogout, AdmitLogoutAll, AdmitRevoke,
       AdmitDelete, Admit
<1>5. CASE \/ RefreshReuse(r) \/ RefreshReuseRevoke(r) \/ RefreshExpired(r)
           \/ RefreshSession(r) \/ RefreshRevoke(r)
           \/ \E t \in TokenId : RefreshCreate(r, t)
           \/ RefreshReply(r)
  <2>1. pwd[r] = 0
    BY <1>5 DEF Current, RefreshReuse, RefreshReuseRevoke, RefreshExpired,
       RefreshSession, RefreshRevoke, RefreshCreate, RefreshReply
  <2>2. QED
    BY <1>5, <2>1, CurrentFrame DEF RefreshReuse, deactivateSession,
       RefreshReuseRevoke, RefreshExpired, RefreshSession, RefreshRevoke,
       RefreshCreate, RefreshReply, Goto, Leave
<1>6. CASE \/ GuardRefuse(r) \/ LogoutRevoke(r)
           \/ \E s \in SessionId : RevokeFind(r, s)
           \/ RevokeDeactivate(r) \/ DeleteAccount(r)
  <2>1. pwd[r] = 0
    BY <1>6 DEF Current, GuardRefuse, LogoutRevoke, RevokeFind,
       RevokeDeactivate, DeleteAccount
  <2>2. QED
    BY <1>6, <2>1, CurrentFrame DEF GuardRefuse, Reject, LogoutRevoke,
       RevokeFind, RevokeDeactivate, deactivateSession, DeleteAccount, Goto, Leave
<1>7. QED
  BY <1>1, <1>2, <1>3, <1>4, <1>5, <1>6 DEF SessionStep

\* The handlers of Passwords keep what is current.
LEMMA PasswordStepCurrent ==
    ASSUME OneAtATime, Consistent, Current, NEW r \in Request, PasswordStep(r)
    PROVE  Current'
<1> USE DEF Consistent, TypeOK, Locals, UserLabel, PasswordLabel
<1>1. CASE LoginProvider(r)
  <2>1. CASE Leave(r)
    BY <1>1, <2>1, CurrentFrame DEF LoginProvider, Leave
  <2>2. CASE ~Leave(r)
    <3> USE <1>1, <2>2 DEF LoginProvider
    <3>1. \A q \in Request : /\ pc'[q] = "login.session"
                            /\ usr'[q] = usr[r]
                            /\ pwd'[q] = passwordHash[usr[r]]
      BY DEF OneAtATime
    <3>2. usr[r] \in User
      OBVIOUS
    <3>3. QED
      BY <3>1, <3>2 DEF Current, ChangeEndsOlderSessions
  <2>3. QED
    BY <2>1, <2>2
<1>2. CASE \E s \in SessionId : LoginSession(r, s)
  <2>1. PICK n \in SessionId : LoginSession(r, n)
    BY <1>2
  <2> USE <2>1 DEF LoginSession, createSession
  <2>2. usr[r] \in User /\ pwd[r] = passwordHash[usr[r]]
    BY DEF Current
  <2>3. userId[n] = None /\ n \notin isActive
    BY DEF Rows
  <2>4. openedWith'[n] >= settled'[userId'[n]]
    BY <2>2 DEF Current
  <2>5. \A s \in isActive : openedWith'[s] = openedWith[s] /\ userId'[s] = userId[s]
    BY <2>3
  <2>6. ChangeEndsOlderSessions'
    BY <2>4, <2>5 DEF Current, ChangeEndsOlderSessions
  <2>7. \A q \in Request : pc'[q] = "login.token" /\ pwd'[q] = pwd[r] /\ usr'[q] = usr[r]
    BY DEF OneAtATime
  <2>8. QED
    BY <2>2, <2>6, <2>7 DEF Current
<1>3. CASE \E t \in TokenId : LoginToken(r, t)
  BY <1>3, CurrentFrame DEF LoginToken
<1>4. CASE LoginStamp(r)
  BY <1>4, CurrentFrame DEF LoginStamp, Leave
<1>5. CASE \/ AdmitChange(r) \/ ChangeFind(r)
           \/ \E k \in Link : ForgotCreate(r, k)
           \/ ForgotMail(r)
  <2>1. pwd[r] = 0
    BY <1>5 DEF Current, AdmitChange, Admit, ChangeFind, ForgotCreate, ForgotMail
  <2>2. QED
    BY <1>5, <2>1, CurrentFrame DEF AdmitChange, Admit, ChangeFind,
       ForgotCreate, ForgotMail, Goto, Leave
<1>6. CASE ChangeUpdate(r)
  BY <1>6, SetPasswordCurrent DEF ChangeUpdate
<1>7. CASE ResetUpdate(r)
  BY <1>7, SetPasswordCurrent DEF ResetUpdate
<1>8. CASE ResetMark(r)
  BY <1>8, CurrentFrame DEF ResetMark, Goto
<1>9. QED
  BY <1>1, <1>2, <1>3, <1>4, <1>5, <1>6, <1>7, <1>8 DEF PasswordStep

\* When requests do not overlap, the password a login verified is still the
\* current one when its session is opened, and deactivateAllUserSessions
\* closes every session there is: Current is inductive.
THEOREM CurrentInvariant ==
    ASSUME OneAtATime
    PROVE  Spec => []Current
<1>1. Init => Current
  BY DEF Init, Current, ChangeEndsOlderSessions, PasswordLabel
<1>2. Consistent /\ Current /\ [Next]_vars => Current'
  <2> SUFFICES ASSUME Consistent, Current, [Next]_vars
               PROVE  Current'
    OBVIOUS
  <2>1. ASSUME NEW r \in Request, Arrive(r)
        PROVE  Current'
    <3>1. pc[r] = "idle" /\ pwd[r] = 0
      BY <2>1 DEF Current, PasswordLabel, Arrive, SessionArrival,
         PasswordArrival, Refresh, GuardUser, Login, Forgot, Reset
    <3>2. QED
      BY <2>1, <3>1, CurrentFrame DEF Consistent, TypeOK, PasswordLabel, Arrive,
         SessionArrival, PasswordArrival, Refresh, GuardUser, Login, Forgot, Reset
  <2>2. ASSUME NEW r \in Request, Abort(r)
        PROVE  Current'
    BY <2>2, CurrentFrame DEF Consistent, TypeOK, PasswordLabel, Abort, Reject, Leave
  <2>3. ASSUME NEW t \in TokenId, Expire(t)
        PROVE  Current'
    BY <2>3 DEF Expire, Current, ChangeEndsOlderSessions
  <2>4. CASE UNCHANGED vars
    BY <2>4 DEF vars, Current, ChangeEndsOlderSessions
  <2>5. QED
    BY <2>1, <2>2, <2>3, <2>4, SessionStepCurrent, PasswordStepCurrent DEF Next, Step
<1>3. QED
  BY <1>1, <1>2, ConsistentInvariant, PTL DEF Spec

\* When requests do not overlap, an acknowledged change or reset of a password
\* leaves no session active that an older password opened, whatever earlier
\* handlers died on the way.
THEOREM ChangesEndSessions ==
    ASSUME OneAtATime
    PROVE  Spec => []ChangeEndsOlderSessions
BY CurrentInvariant, PTL DEF Current

-----------------------------------------------------------------------------
(* The exchange of a refresh token is one step of TokenRotation.           *)

\* Whatever only takes their tokens away from some sessions ends them.
LEMMA RotationEnd ==
    ASSUME UNCHANGED sessionId,
           \A s \in SessionId : Credentials(s)' \in {Credentials(s), {}}
    PROVE  Exchange!Next
<1> DEFINE ended == {s \in SessionId : Credentials(s)' = {}}
<1>1. ended \in SUBSET SessionId
  OBVIOUS
<1>2. \A s \in SessionId : Credentials(s)' = IF s \in ended THEN {} ELSE Credentials(s)
  OBVIOUS
<1>3. \A s \in SessionId : TokensOf({s})' = TokensOf({s})
  BY DEF TokensOf
<1>4. Exchange!End(ended)
  BY <1>2, <1>3 DEF Exchange!End
<1>5. QED
  BY <1>1, <1>4 DEF Exchange!Next

\* A new token that takes the place of all others of its session.
LEMMA RotationIssue ==
    ASSUME NEW s \in SessionId, NEW t \in TokenId,
           sessionId \in [TokenId -> SessionId \cup {None}],
           sessionId[t] = None, sessionId' = [sessionId EXCEPT ![t] = s],
           Credentials(s)' = {t},
           \A o \in SessionId \ {s} : Credentials(o)' = Credentials(o)
    PROVE  Exchange!Issue(s, t)
<1>1. \A o \in SessionId : t \notin TokensOf({o})
  BY NoneAssumption DEF TokensOf
<1>2. \A o \in SessionId \ {s} : TokensOf({o})' = TokensOf({o})
  BY NoneAssumption DEF TokensOf
<1>3. TokensOf({s})' = TokensOf({s}) \cup {t}
  BY DEF TokensOf
<1>4. Exchange!Fresh(t)
  BY <1>1 DEF Exchange!Fresh
<1>5. QED
  BY <1>2, <1>3, <1>4 DEF Exchange!Issue

\* The token in exchange, seen by the handler that is alone.
LEMMA AloneInExchange ==
    ASSUME OneAtATime, NEW r \in Request, NEW s \in SessionId
    PROVE  InExchange(s) = IF pc[r] = "refresh.create" /\ ses[r] = s THEN {tok[r]} ELSE {}
BY DEF OneAtATime, InExchange

\* The same of the state after its step.
LEMMA AloneInExchangeAfter ==
    ASSUME OneAtATime, NEW r \in Request, NEW s \in SessionId
    PROVE  InExchange(s)' = IF pc'[r] = "refresh.create" /\ ses'[r] = s THEN {tok'[r]} ELSE {}
BY DEF OneAtATime, InExchange

\* What a session can go on with, by its tokens.
LEMMA CredentialsAre ==
    ASSUME NEW s \in SessionId, NEW t
    PROVE  t \in Credentials(s) <=>
             /\ s \in isActive
             /\ \/ t \in TokenId /\ sessionId[t] = s /\ t \notin revokedAt
                \/ t \in InExchange(s)
BY DEF Credentials, TokensOf

\* The same of the state after a step.
LEMMA CredentialsAreAfter ==
    ASSUME NEW s \in SessionId, NEW t
    PROVE  t \in Credentials(s)' <=>
             /\ s \in isActive'
             /\ \/ t \in TokenId /\ sessionId'[t] = s /\ t \notin revokedAt'
                \/ t \in InExchange(s)'
BY DEF Credentials, TokensOf

\* Revoking tokens, ending sessions and giving an exchange up.
LEMMA RotationLoss ==
    ASSUME OneAtATime, Consistent, Family, Chain, Exchanging, NEW r \in Request,
           UNCHANGED sessionId, isActive' \subseteq isActive,
           revokedAt \subseteq revokedAt', pc'[r] # "refresh.create"
    PROVE  Exchange!Next
<1> SUFFICES ASSUME NEW s \in SessionId
             PROVE  Credentials(s)' \in {Credentials(s), {}}
  BY RotationEnd
<1>1. InExchange(s)' = {}
  BY AloneInExchangeAfter
<1>2. CASE s \notin isActive'
  BY <1>2 DEF Credentials
<1>3. CASE s \in isActive' /\ pc[r] = "refresh.create" /\ ses[r] = s
  <2>1. \A t \in TokenId : sessionId[t] = s => t \in revokedAt'
    BY <1>3 DEF Exchanging
  <2>2. QED
    BY <1>1, <1>3, <2>1 DEF Credentials, TokensOf
<1>4. CASE s \in isActive' /\ ~(pc[r] = "refresh.create" /\ ses[r] = s)
  <2>1. InExchange(s) = {}
    BY <1>4, AloneInExchange
  <2>2. Credentials(s) = {t \in TokenId : sessionId[t] = s /\ t \notin revokedAt}
    BY <1>4, <2>1 DEF Credentials, TokensOf
  <2>3. Credentials(s)' = {t \in TokenId : sessionId[t] = s /\ t \notin revokedAt'}
    BY <1>1, <1>4 DEF Credentials, TokensOf
  <2>4. \A t, v \in Credentials(s) : t = v
    BY <2>2, OneToken, NoneAssumption
  <2>5. QED
    BY <2>2, <2>3, <2>4
<1>5. QED
  BY <1>2, <1>3, <1>4

\* Every step of a handler that is alone is one of TokenRotation's or none.
LEMMA RotationStep ==
    ASSUME OneAtATime, Consistent, Revokers, Family, Chain, Exchanging, [Next]_vars
    PROVE  Exchange!Next \/ UNCHANGED Exchange!vars
<1> USE NoneAssumption DEF Consistent, TypeOK, Locals, RefreshLabel, OneAtATime
<1>1. ASSUME NEW r \in Request, NEW n \in SessionId, LoginSession(r, n)
      PROVE  Exchange!Next
  <2> USE <1>1 DEF LoginSession, createSession
  <2>1. n \notin isActive
    BY DEF Rows
  <2>2. \A t \in TokenId : sessionId[t] # n
    BY DEF Rows
  <2>3. ASSUME NEW s \in SessionId
        PROVE  Credentials(s)' = Credentials(s)
    <3>1. InExchange(s) = {} /\ InExchange(s)' = {}
      BY AloneInExchange, AloneInExchangeAfter
    <3>2. \A t : t \in Credentials(s)' <=> t \in Credentials(s)
      BY <2>1, <2>2, <3>1, CredentialsAre, CredentialsAreAfter
    <3>3. QED
      BY <3>2 DEF Credentials
  <2>4. QED
    BY <2>3, RotationEnd
<1>2. ASSUME NEW r \in Request, NEW n \in TokenId, LoginToken(r, n)
      PROVE  Exchange!Next
  <2> USE <1>2 DEF LoginToken, createRefreshToken
  <2>1. ses[r] \in isActive /\ \A t \in TokenId : sessionId[t] # ses[r]
    BY DEF Exchanging, Family
  <2>2. n \notin revokedAt
    BY DEF Revokers
  <2>3. \A s \in SessionId : InExchange(s) = {} /\ InExchange(s)' = {}
    BY AloneInExchange, AloneInExchangeAfter
  <2>4. ASSUME NEW s \in SessionId, s = ses[r]
        PROVE  Credentials(s)' = {n}
    BY <2>1, <2>2, <2>3, <2>4 DEF Credentials, TokensOf
  <2>5. ASSUME NEW o \in SessionId \ {ses[r]}
        PROVE  Credentials(o)' = Credentials(o)
    <3>1. o # ses[r] /\ InExchange(o) = {} /\ InExchange(o)' = {}
      BY <2>3, <2>5
    <3>2. /\ UNCHANGED <<isActive, revokedAt>>
          /\ \A t \in TokenId : sessionId'[t] = o <=> sessionId[t] = o
      BY <3>1
    <3>3. \A t : t \in Credentials(o)' <=> t \in Credentials(o)
      <4> HIDE <1>2 DEF LoginToken, createRefreshToken, Consistent, TypeOK, Locals,
                   RefreshLabel, OneAtATime
      <4>1. QED
        BY <3>1, <3>2, CredentialsAre, CredentialsAreAfter
    <3>4. QED
      BY <3>3 DEF Credentials
  <2>6. Exchange!Issue(ses[r], n)
    BY <2>1, <2>4, <2>5, RotationIssue
  <2>7. TokensOf({ses[r]}) = {}
    BY <2>1 DEF TokensOf
  <2>8. Exchange!Open(ses[r], n)
    BY <2>1, <2>6, <2>7 DEF Exchange!Open
  <2>9. QED
    BY <2>1, <2>8 DEF Exchange!Next
<1>3. ASSUME NEW r \in Request, RefreshRevoke(r)
      PROVE  Exchange!Next
  <2> USE <1>3 DEF RefreshRevoke, revokeRefreshToken, Goto
  <2>1. ASSUME NEW s \in SessionId
        PROVE  Credentials(s)' = Credentials(s)
    <3>1. /\ InExchange(s) = {}
          /\ InExchange(s)' = IF ses[r] = s THEN {tok[r]} ELSE {}
      BY AloneInExchange, AloneInExchangeAfter
    <3>2. tok[r] \notin revokedAt
      BY DEF Chain
    <3>3. \A t : t \in Credentials(s)' <=> t \in Credentials(s)
      BY <3>1, <3>2, CredentialsAre, CredentialsAreAfter
    <3>4. QED
      BY <3>3 DEF Credentials
  <2>2. QED
    BY <2>1, RotationEnd
<1>4. ASSUME NEW r \in Request, NEW n \in TokenId, RefreshCreate(r, n)
      PROVE  Exchange!Next
  <2> USE <1>4 DEF RefreshCreate, createRefreshToken
  <2>1. /\ ses[r] \in isActive
        /\ \A t \in TokenId : sessionId[t] = ses[r] => t \in revokedAt
    BY DEF Exchanging
  <2>2. n \notin revokedAt
    BY DEF Revokers
  <2>3. \A s \in SessionId : /\ InExchange(s) = IF ses[r] = s THEN {tok[r]} ELSE {}
                             /\ InExchange(s)' = {}
    BY AloneInExchange, AloneInExchangeAfter
  <2>4. ASSUME NEW s \in SessionId, s = ses[r]
        PROVE  Credentials(s)' = {n}
    BY <2>1, <2>2, <2>3, <2>4 DEF Credentials, TokensOf
  <2>5. ASSUME NEW o \in SessionId \ {ses[r]}
        PROVE  Credentials(o)' = Credentials(o)
    <3>1. o # ses[r] /\ InExchange(o) = {} /\ InExchange(o)' = {}
      BY <2>3, <2>5
    <3>2. /\ UNCHANGED <<isActive, revokedAt>>
          /\ \A t \in TokenId : sessionId'[t] = o <=> sessionId[t] = o
      BY <3>1
    <3>3. \A t : t \in Credentials(o)' <=> t \in Credentials(o)
      <4> HIDE <1>4 DEF RefreshCreate, createRefreshToken, Consistent, TypeOK, Locals,
                   RefreshLabel, OneAtATime
      <4>1. QED
        BY <3>1, <3>2, CredentialsAre, CredentialsAreAfter
    <3>4. QED
      BY <3>3 DEF Credentials
  <2>6. Exchange!Issue(ses[r], n)
    BY <2>1, <2>4, <2>5, RotationIssue
  <2>7. Credentials(ses[r]) # {}
    BY <2>1, <2>3 DEF Credentials
  <2>8. Exchange!Rotate(ses[r], n)
    BY <2>1, <2>6, <2>7 DEF Exchange!Rotate
  <2>9. QED
    BY <2>1, <2>8 DEF Exchange!Next
<1>5. ASSUME NEW r \in Request, SessionStep(r), ~RefreshRevoke(r),
             ~\E t \in TokenId : RefreshCreate(r, t)
      PROVE  Exchange!Next
  BY <1>5, RotationLoss
  DEF SessionStep, RefreshReuse, deactivateSession, RefreshReuseRevoke,
      revokeAllSessionRefreshTokens, RefreshExpired, revokeRefreshToken,
      RefreshSession, RefreshReply, AdmitLogout, AdmitLogoutAll, AdmitRevoke,
      AdmitDelete, Admit, GuardRefuse, Reject, LogoutRevoke, LogoutDeactivate,
      RevokeFind, RevokeDeactivate, RevokeTokens, DeleteAccount, FindSessions,
      CloseFound, Acknowledge, Goto, Leave
<1>6. ASSUME NEW r \in Request, PasswordStep(r),
             ~\E s \in SessionId : LoginSession(r, s),
             ~\E t \in TokenId : LoginToken(r, t)
      PROVE  Exchange!Next
  BY <1>6, RotationLoss
  DEF PasswordStep, LoginProvider, LoginStamp, AdmitChange, Admit, ChangeFind,
      ChangeUpdate, SetPassword, ForgotCreate, ForgotMail, ResetUpdate,
      ResetMark, Goto, Leave
<1>7. ASSUME NEW r \in Request, Arrive(r) \/ Abort(r)
      PROVE  Exchange!Next
  BY <1>7, RotationLoss
  DEF Arrive, SessionArrival, PasswordArrival, Refresh, GuardUser, Login,
      Forgot, Reset, Abort, Reject, Leave
<1>8. ASSUME NEW t \in TokenId, Expire(t)
      PROVE  Exchange!Next
  <2>1. \A s \in SessionId : Credentials(s)' = Credentials(s)
    BY <1>8 DEF Expire, Credentials, TokensOf, InExchange
  <2>2. QED
    BY <1>8, <2>1, RotationEnd DEF Expire
<1>9. CASE UNCHANGED vars
  <2>1. \A s \in SessionId : Credentials(s)' = Credentials(s)
    BY <1>9 DEF vars, Credentials, TokensOf, InExchange
  <2>2. QED
    BY <1>9, <2>1, RotationEnd DEF vars
<1>10. QED
  BY <1>1, <1>2, <1>3, <1>4, <1>5, <1>6, <1>7, <1>8, <1>9 DEF Next, Step

\* When requests do not overlap, the three queries of an exchange of refresh
\* tokens (find, revoke, create) are to the clients one indivisible step,
\* which happens or does not happen when the handler dies in between: a session
\* never has two tokens, and one that has lost its token stays without.
THEOREM RotationImplemented ==
    ASSUME OneAtATime
    PROVE  Spec => ImplementsRotation
<1>1. Init => Exchange!Init
  <2> SUFFICES ASSUME Init
               PROVE  Exchange!Init
    OBVIOUS
  <2>1. \A s \in SessionId : Credentials(s) = {} /\ TokensOf({s}) = {}
    BY NoneAssumption DEF Init, Credentials, TokensOf
  <2>2. QED
    BY <2>1 DEF Exchange!Init
<1>2. Consistent /\ Revokers /\ Family /\ Chain /\ Exchanging /\ [Next]_vars
        => [Exchange!Next]_(Exchange!vars)
  BY RotationStep
<1>3. QED
  BY <1>1, <1>2, ConsistentInvariant, RevokersInvariant, FamilyInvariant,
     ChainInvariant, ExchangingInvariant, PTL
  DEF Spec, ImplementsRotation, Exchange!Spec
=============================================================================
