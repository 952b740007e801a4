------------------------------ MODULE Passwords ------------------------------
(***************************************************************************)
(* The operations that read or replace a password: login.use-case.ts,      *)
(* forgot-password.use-case.ts, reset-password.use-case.ts and             *)
(* UserService.changePassword.  A password is the number of times the hash *)
(* had been replaced when it was current, so verifying a password against  *)
(* a hash is equality, and argon2 runs between two queries.                *)
(***************************************************************************)
EXTENDS Sessions

-----------------------------------------------------------------------------
(* LoginUseCase.execute.                                                   *)

\* findUserByEmail and the status check.
Login(r, u) ==
    /\ "login" \in Operations
    /\ At(r, "idle")
    /\ u \notin deleted
    /\ pc' = [pc EXCEPT ![r] = "login.provider"]
    /\ usr' = [usr EXCEPT ![r] = u]
    /\ UNCHANGED <<accountVars, sessionVars, tokenVars, linkVars, historyVars,
                   delivered, ses, tok, ids, pwd, owed>>

\* findAuthProvider: the client's password is compared with the hash read
\* here, and a wrong one is rejected.
LoginProvider(r) ==
    /\ At(r, "login.provider")
    /\ \/ /\ pc' = [pc EXCEPT ![r] = "login.session"]
          /\ pwd' = [pwd EXCEPT ![r] = passwordHash[usr[r]]]
          /\ UNCHANGED <<usr, ses, tok, ids, owed>>
       \/ Leave(r)
    /\ UNCHANGED <<accountVars, sessionVars, tokenVars, linkVars, historyVars,
                   delivered>>

LoginSession(r, s) ==
    /\ At(r, "login.session")
    /\ createSession(usr[r], s, pwd[r])
    /\ pc' = [pc EXCEPT ![r] = "login.token"]
    /\ ses' = [ses EXCEPT ![r] = s]
    /\ UNCHANGED <<accountVars, tokenVars, linkVars, historyVars, delivered,
                   usr, tok, ids, pwd, owed>>

LoginToken(r, t) ==
    /\ At(r, "login.token")
    /\ createRefreshToken(ses[r], t, None)
    /\ pc' = [pc EXCEPT ![r] = "login.stamp"]
    /\ tok' = [tok EXCEPT ![r] = t]
    /\ UNCHANGED <<accountVars, sessionVars, linkVars, historyVars, delivered,
                   usr, ses, ids, pwd, owed>>

\* updateLastLogin, and the pair reaches the client.
LoginStamp(r) ==
    /\ At(r, "login.stamp")
    /\ delivered' = delivered \cup {tok[r]}
    /\ Leave(r)
    /\ UNCHANGED <<accountVars, sessionVars, tokenVars, linkVars, historyVars>>

-----------------------------------------------------------------------------
(* UserService.changePassword, behind the guard.                           *)

AdmitChange(r) == Admit(r, "change", "change.find", SessionsOf(usr[r]))

\* findAuthProvider; a wrong current password is rejected.
ChangeFind(r) ==
    /\ At(r, "change.find")
    /\ \/ Goto(r, "change.update")
       \/ Leave(r)
    /\ UNCHANGED <<accountVars, sessionVars, tokenVars, linkVars, historyVars,
                   delivered>>

\* The new hash is written whatever the hash is by now.
SetPassword(r, label) ==
    /\ updateAuthProviderPassword(usr[r])
    /\ pc' = [pc EXCEPT ![r] = label]
    /\ pwd' = [pwd EXCEPT ![r] = passwordHash[usr[r]] + 1]
    /\ UNCHANGED <<usr, ses, tok, ids, owed>>

ChangeUpdate(r) ==
    /\ At(r, "change.update")
    /\ SetPassword(r, "closeAll.find")
    /\ UNCHANGED <<sessionVars, tokenVars, linkVars, historyVars, delivered>>

-----------------------------------------------------------------------------
(* ForgotPasswordUseCase.execute.                                          *)

\* findUserByEmail; a deleted account no longer has its e-mail address.
Forgot(r, u) ==
    /\ "forgot" \in Operations
    /\ At(r, "idle")
    /\ u \notin deleted
    /\ pc' = [pc EXCEPT ![r] = "forgot.create"]
    /\ usr' = [usr EXCEPT ![r] = u]
    /\ UNCHANGED <<accountVars, sessionVars, tokenVars, linkVars, historyVars,
                   delivered, ses, tok, ids, pwd, owed>>

createPasswordResetToken(u, k) ==
    /\ linkUser[k] = None
    /\ linkUser' = [linkUser EXCEPT ![k] = u]
    /\ UNCHANGED <<usedAt, applied>>

ForgotCreate(r, k) ==
    /\ At(r, "forgot.create")
    /\ createPasswordResetToken(usr[r], k)
    /\ pc' = [pc EXCEPT ![r] = "forgot.mail"]
    /\ tok' = [tok EXCEPT ![r] = k]
    /\ UNCHANGED <<accountVars, sessionVars, tokenVars, historyVars, delivered,
                   usr, ses, ids, pwd, owed>>

\* sendPasswordResetEmail: the link reaches the mailbox.
ForgotMail(r) ==
    /\ At(r, "forgot.mail")
    /\ delivered' = delivered \cup {tok[r]}
    /\ Leave(r)
    /\ UNCHANGED <<accountVars, sessionVars, tokenVars, linkVars, historyVars>>

-----------------------------------------------------------------------------
(* ResetPasswordUseCase.execute.                                           *)

\* A slip only mutation runs use: the link is marked and nothing is set.
ResetMarkFirst(r, k) ==
    /\ At(r, "idle")
    /\ k \in delivered
    /\ k \notin usedAt
    /\ pc' = [pc EXCEPT ![r] = "reset.mark"]
    /\ tok' = [tok EXCEPT ![r] = k]
    /\ usr' = [usr EXCEPT ![r] = linkUser[k]]
    /\ UNCHANGED <<accountVars, sessionVars, tokenVars, linkVars, historyVars,
                   delivered, ses, ids, pwd, owed>>

\* findPasswordResetToken; a used link is rejected, and so is an expired one
\* (not modelled: it only rejects more).
Reset(r, k) ==
    /\ "reset" \in Operations
    /\ At(r, "idle")
    /\ k \in delivered
    /\ k \notin usedAt
    /\ pc' = [pc EXCEPT ![r] = "reset.update"]
    /\ tok' = [tok EXCEPT ![r] = k]
    /\ usr' = [usr EXCEPT ![r] = linkUser[k]]
    /\ owed' = [owed EXCEPT ![r] = SessionsOf(linkUser[k])]
    /\ UNCHANGED <<accountVars, sessionVars, tokenVars, linkVars, historyVars,
                   delivered, ses, ids, pwd>>

ResetUpdate(r) ==
    /\ At(r, "reset.update")
    /\ SetPassword(r, "reset.mark")
    /\ applied' = [applied EXCEPT ![tok[r]] = @ + 1]
    /\ UNCHANGED <<sessionVars, tokenVars, linkUser, usedAt, historyVars,
                   delivered>>

markPasswordResetTokenUsed(k) ==
    /\ usedAt' = usedAt \cup {k}
    /\ UNCHANGED <<linkUser, applied>>

ResetMark(r) ==
    /\ At(r, "reset.mark")
    /\ markPasswordResetTokenUsed(tok[r])
    /\ Goto(r, "closeAll.find")
    /\ UNCHANGED <<accountVars, sessionVars, tokenVars, historyVars, delivered>>

-----------------------------------------------------------------------------
PasswordStep(r) ==
    \/ LoginProvider(r)
    \/ \E s \in SessionId : LoginSession(r, s)
    \/ \E t \in TokenId : LoginToken(r, t)
    \/ LoginStamp(r)
    \/ AdmitChange(r)
    \/ ChangeFind(r)
    \/ ChangeUpdate(r)
    \/ \E k \in Link : ForgotCreate(r, k)
    \/ ForgotMail(r)
    \/ ResetUpdate(r)
    \/ ResetMark(r)

PasswordArrival(r) ==
    \/ \E u \in User : Login(r, u)
    \/ \E u \in User : Forgot(r, u)
    \/ \E k \in Link : Reset(r, k)
=============================================================================
