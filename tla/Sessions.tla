------------------------------- MODULE Sessions -------------------------------
(***************************************************************************)
(* What happens to device sessions after they are opened: refresh-token    *)
(* rotation with reuse detection (refresh-token.use-case.ts), the access-  *)
(* token guard (jwt-strategy.ts), logout of one or all devices (logout.    *)
(* use-case.ts), revocation of a device and account deletion (user.        *)
(* service.ts).  The labels of AuthStore name the query a handler awaits.  *)
(***************************************************************************)
EXTENDS AuthStore

-----------------------------------------------------------------------------
(* Plausible slips in the handlers below; only mutation runs use them.     *)

RefreshUnchecked(r, t) ==
    /\ At(r, "idle")
    /\ t \in delivered
    /\ pc' = [pc EXCEPT ![r] = IF t \in expired THEN "refresh.expired"
                               ELSE "refresh.session"]
    /\ tok' = [tok EXCEPT ![r] = t]
    /\ ses' = [ses EXCEPT ![r] = sessionId[t]]
    /\ UNCHANGED <<accountVars, sessionVars, tokenVars, linkVars, historyVars,
                   delivered, usr, ids, pwd, owed>>

RefreshReuseTokensOnly(r) ==
    /\ At(r, "refresh.reuse")
    /\ Goto(r, "refresh.reuse.revoke")
    /\ UNCHANGED <<accountVars, sessionVars, tokenVars, linkVars, historyVars,
                   delivered>>

RefreshWithoutRevoke(r) ==
    /\ At(r, "refresh.session")
    /\ IF ses[r] \in isActive THEN Goto(r, "refresh.create") ELSE Leave(r)
    /\ UNCHANGED <<accountVars, sessionVars, tokenVars, linkVars, historyVars,
                   delivered>>

LogoutTokensOnly(r) ==
    /\ At(r, "logout.revoke")
    /\ revokeAllSessionRefreshTokens(ses[r])
    /\ Leave(r)
    /\ UNCHANGED <<accountVars, sessionVars, linkVars, historyVars, delivered>>

AnyOwner(u, s) == TRUE

-----------------------------------------------------------------------------
(* RefreshTokenUseCase.execute.                                            *)

\* findRefreshToken, and the checks on the row it returned.  A client can
\* only present a token it was given; an unknown one changes nothing.
Refresh(r, t) ==
    /\ "refresh" \in Operations
    /\ At(r, "idle")
    /\ t \in delivered
    /\ pc' = [pc EXCEPT ![r] = IF t \in revokedAt THEN "refresh.reuse"
                               ELSE IF t \in expired THEN "refresh.expired"
                               ELSE "refresh.session"]
    /\ tok' = [tok EXCEPT ![r] = t]
    /\ ses' = [ses EXCEPT ![r] = sessionId[t]]
    /\ UNCHANGED <<accountVars, sessionVars, tokenVars, linkVars, historyVars,
                   delivered, usr, ids, pwd, owed>>

RefreshReuse(r) ==
    /\ At(r, "refresh.reuse")
    /\ deactivateSession(ses[r])
    /\ Goto(r, "refresh.reuse.revoke")
    /\ UNCHANGED <<accountVars, tokenVars, linkVars, historyVars, delivered>>

RefreshReuseRevoke(r) ==
    /\ At(r, "refresh.reuse.revoke")
    /\ revokeAllSessionRefreshTokens(ses[r])
    /\ Leave(r)
    /\ UNCHANGED <<accountVars, sessionVars, linkVars, historyVars, delivered>>

RefreshExpired(r) ==
    /\ At(r, "refresh.expired")
    /\ revokeRefreshToken(tok[r])
    /\ Leave(r)
    /\ UNCHANGED <<accountVars, sessionVars, linkVars, historyVars, delivered>>

\* findSessionWithUser.  The user's status is read and not looked at.
RefreshSession(r) ==
    /\ At(r, "refresh.session")
    /\ IF ses[r] \in isActive THEN Goto(r, "refresh.revoke") ELSE Leave(r)
    /\ UNCHANGED <<accountVars, sessionVars, tokenVars, linkVars, historyVars,
                   delivered>>

RefreshRevoke(r) ==
    /\ At(r, "refresh.revoke")
    /\ revokeRefreshToken(tok[r])
    /\ Goto(r, "refresh.create")
    /\ UNCHANGED <<accountVars, sessionVars, linkVars, historyVars, delivered>>

RefreshCreate(r, t) ==
    /\ At(r, "refresh.create")
    /\ createRefreshToken(ses[r], t, tok[r])
    /\ pc' = [pc EXCEPT ![r] = "refresh.reply"]
    /\ tok' = [tok EXCEPT ![r] = t]
    /\ UNCHANGED <<accountVars, sessionVars, linkVars, historyVars, delivered,
                   usr, ses, ids, pwd, owed>>

\* The new pair reaches the client.
RefreshReply(r) ==
    /\ At(r, "refresh.reply")
    /\ delivered' = delivered \cup {tok[r]}
    /\ Leave(r)
    /\ UNCHANGED <<accountVars, sessionVars, tokenVars, linkVars, historyVars>>

-----------------------------------------------------------------------------
(* JwtStrategy.validate, in front of every handler below.                  *)

\* A client holds an access token of session s when a login or a refresh of
\* s has replied to it.
Holds(s) == delivered \cap TokensOf({s}) # {}

GuardUser(r, s) ==
    /\ Operations \cap {"logout", "logoutAll", "revoke", "delete", "change"} # {}
    /\ At(r, "idle")
    /\ Holds(s)
    /\ userId[s] \notin deleted
    /\ pc' = [pc EXCEPT ![r] = "guard.session"]
    /\ usr' = [usr EXCEPT ![r] = userId[s]]
    /\ ses' = [ses EXCEPT ![r] = s]
    /\ UNCHANGED <<accountVars, sessionVars, tokenVars, linkVars, historyVars,
                   delivered, tok, ids, pwd, owed>>

\* The session is read and, if it is active, handler op starts at its first
\* query; promise is what a success of that handler says it has ended.
Admit(r, op, label, promise) ==
    /\ op \in Operations
    /\ At(r, "guard.session")
    /\ ses[r] \in isActive
    /\ pc' = [pc EXCEPT ![r] = label]
    /\ owed' = [owed EXCEPT ![r] = promise]
    /\ UNCHANGED <<accountVars, sessionVars, tokenVars, linkVars, historyVars,
                   delivered, usr, ses, tok, ids, pwd>>

GuardRefuse(r) ==
    /\ At(r, "guard.session")
    /\ ses[r] \notin isActive
    /\ Reject(r)

-----------------------------------------------------------------------------
(* LogoutUseCase.                                                          *)

AdmitLogout(r) == Admit(r, "logout", "logout.revoke", {ses[r]})

LogoutRevoke(r) ==
    /\ At(r, "logout.revoke")
    /\ revokeAllSessionRefreshTokens(ses[r])
    /\ Goto(r, "logout.deactivate")
    /\ UNCHANGED <<accountVars, sessionVars, linkVars, historyVars, delivered>>

LogoutDeactivate(r) ==
    /\ At(r, "logout.deactivate")
    /\ deactivateSession(ses[r])
    /\ Acknowledge(r)
    /\ UNCHANGED <<accountVars, tokenVars, linkVars, delivered>>

AdmitLogoutAll(r) ==
    Admit(r, "logoutAll", "closeAll.find", SessionsOf(usr[r]))

-----------------------------------------------------------------------------
(* UserRepository.revokeSession: the client names any session id.          *)

Owns(u, s) == userId[s] = u

AdmitRevoke(r) == Admit(r, "revoke", "revoke.find", {})

RevokeFind(r, s) ==
    /\ At(r, "revoke.find")
    /\ userId[s] # None
    /\ IF Owns(usr[r], s)
       THEN /\ pc' = [pc EXCEPT ![r] = "revoke.deactivate"]
            /\ ses' = [ses EXCEPT ![r] = s]
            /\ owed' = [owed EXCEPT ![r] = {s}]
            /\ UNCHANGED <<usr, tok, ids, pwd>>
       ELSE Leave(r)
    /\ UNCHANGED <<accountVars, sessionVars, tokenVars, linkVars, historyVars,
                   delivered>>

RevokeDeactivate(r) ==
    /\ At(r, "revoke.deactivate")
    /\ deactivateSession(ses[r])
    /\ Goto(r, "revoke.tokens")
    /\ UNCHANGED <<accountVars, tokenVars, linkVars, historyVars, delivered>>

RevokeTokens(r) ==
    /\ At(r, "revoke.tokens")
    /\ revokeAllSessionRefreshTokens(ses[r])
    /\ Acknowledge(r)
    /\ UNCHANGED <<accountVars, sessionVars, linkVars, delivered>>

-----------------------------------------------------------------------------
(* UserService.deleteAccount: one update, which leaves the sessions alone. *)

AdmitDelete(r) == Admit(r, "delete", "delete.write", {})

DeleteAccount(r) ==
    /\ At(r, "delete.write")
    /\ deleted' = deleted \cup {usr[r]}
    /\ Leave(r)
    /\ UNCHANGED <<passwordHash, sessionVars, tokenVars, linkVars, historyVars,
                   delivered>>

-----------------------------------------------------------------------------
\* The steps of a handler that is on its way.
SessionStep(r) ==
    \/ RefreshReuse(r)
    \/ RefreshReuseRevoke(r)
    \/ RefreshExpired(r)
    \/ RefreshSession(r)
    \/ RefreshRevoke(r)
    \/ \E t \in TokenId : RefreshCreate(r, t)
    \/ RefreshReply(r)
    \/ AdmitLogout(r)
    \/ AdmitLogoutAll(r)
    \/ AdmitRevoke(r)
    \/ AdmitDelete(r)
    \/ GuardRefuse(r)
    \/ LogoutRevoke(r)
    \/ LogoutDeactivate(r)
    \/ \E s \in SessionId : RevokeFind(r, s)
    \/ RevokeDeactivate(r)
    \/ RevokeTokens(r)
    \/ DeleteAccount(r)
    \/ FindSessions(r)
    \/ CloseFound(r)

SessionArrival(r) ==
    \/ \E t \in TokenId : Refresh(r, t)
    \/ \E s \in SessionId : GuardUser(r, s)
=============================================================================
