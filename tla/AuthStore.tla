------------------------------- MODULE AuthStore -------------------------------
(***************************************************************************)
(* The tables of the authentication subsystem, the local variables of the  *)
(* request handlers that work on them, and the repository operations       *)
(* (auth.repository.ts, user.repository.ts).                               *)
(*                                                                         *)
(* The server runs as several Node processes on one Postgres               *)
(* (ecosystem.config.js), and every awaited query lets another handler     *)
(* run: an action of the modules above this one is one awaited query (or   *)
(* one $transaction) with the code up to the next one.                     *)
(***************************************************************************)
EXTENDS Naturals, FiniteSets

CONSTANTS User,        \* verified accounts with an EMAIL provider
          SessionId,   \* ids the session table may still hand out
          TokenId,     \* refresh tokens that may still be generated
          Link,        \* password reset tokens that may still be generated
          Request,     \* handlers that may be in flight together
          None,        \* SQL null, and an unset local
          MaxPassword, \* bound on the number of password changes of a user
          Operations   \* the requests (and faults) an instance includes

AllOperations ==
    {"login", "refresh", "logout", "logoutAll", "revoke", "delete",
     "change", "forgot", "reset", "expire", "abort"}

ASSUME NoneAssumption ==
    /\ None \notin User
    /\ None \notin SessionId
    /\ None \notin TokenId
    /\ None \notin Link
ASSUME TokensAreNotLinks == TokenId \cap Link = {}
ASSUME MaxPasswordAssumption == MaxPassword \in Nat
ASSUME OperationsAssumption == Operations \subseteq AllOperations

VARIABLES
    deleted,       \* users with status DELETED
    passwordHash,  \* auth_providers.passwordHash: how often it was replaced
    userId,        \* user_sessions.userId; None: no such row yet
    isActive,      \* user_sessions whose isActive is true
    sessionId,     \* refresh_tokens.sessionId; None: no such row yet
    revokedAt,     \* refresh_tokens whose revokedAt is set
    expired,       \* refresh_tokens whose expiresAt has passed
    linkUser,      \* password_reset_tokens.userId; None: no such row yet
    usedAt,        \* password_reset_tokens whose usedAt is set
    delivered,     \* refresh tokens and reset links some client has received
    pc,            \* where each handler is
    usr, ses, tok, \* its user, its session, its token or reset link
    ids,           \* its result of findMany({userId, isActive: true})
    pwd,           \* the password it verified or set
    owed,          \* history: the sessions its success promises to end
    closed,        \* history: the sessions a successful request has ended
    parent,        \* history: the token each token was exchanged for
    openedWith,    \* history: the password each session was opened with
    settled,       \* history: the last password whose change was acknowledged
    applied        \* history: how often each link has set a password

accountVars == <<deleted, passwordHash>>
sessionVars == <<userId, isActive, openedWith>>
tokenVars   == <<sessionId, revokedAt, expired, parent>>
linkVars    == <<linkUser, usedAt, applied>>
historyVars == <<closed, settled>>
localVars   == <<usr, ses, tok, ids, pwd, owed>>
vars == <<deleted, passwordHash, userId, isActive, openedWith, sessionId,
          revokedAt, expired, parent, linkUser, usedAt, applied, closed,
          settled, delivered, pc, usr, ses, tok, ids, pwd, owed>>

Label ==
    {"idle", "guard.session",
     "refresh.reuse", "refresh.reuse.revoke", "refresh.expired",
     "refresh.session", "refresh.revoke", "refresh.create", "refresh.reply",
     "logout.revoke", "logout.deactivate", "revoke.find", "revoke.deactivate",
     "revoke.tokens", "delete.write", "closeAll.find", "closeAll.write",
     "login.provider", "login.session", "login.token", "login.stamp",
     "change.find", "change.update",
     "forgot.create", "forgot.mail", "reset.update", "reset.mark"}

TypeOK ==
    /\ deleted \subseteq User
    /\ passwordHash \in [User -> Nat]
    /\ userId \in [SessionId -> User \cup {None}]
    /\ isActive \subseteq SessionId
    /\ sessionId \in [TokenId -> SessionId \cup {None}]
    /\ revokedAt \subseteq TokenId
    /\ expired \subseteq TokenId
    /\ linkUser \in [Link -> User \cup {None}]
    /\ usedAt \subseteq Link
    /\ delivered \subseteq TokenId \cup Link
    /\ pc \in [Request -> Label]
    /\ usr \in [Request -> User \cup {None}]
    /\ ses \in [Request -> SessionId \cup {None}]
    /\ tok \in [Request -> TokenId \cup Link \cup {None}]
    /\ ids \in [Request -> SUBSET SessionId]
    /\ pwd \in [Request -> Nat]
    /\ owed \in [Request -> SUBSET SessionId]
    /\ closed \subseteq SessionId
    /\ parent \in [TokenId -> TokenId \cup {None}]
    /\ openedWith \in [SessionId -> Nat]
    /\ settled \in [User -> Nat]
    /\ applied \in [Link -> Nat]

Init ==
    /\ deleted = {}
    /\ passwordHash = [u \in User |-> 0]
    /\ userId = [s \in SessionId |-> None]
    /\ isActive = {}
    /\ sessionId = [t \in TokenId |-> None]
    /\ revokedAt = {}
    /\ expired = {}
    /\ linkUser = [k \in Link |-> None]
    /\ usedAt = {}
    /\ delivered = {}
    /\ pc = [r \in Request |-> "idle"]
    /\ usr = [r \in Request |-> None]
    /\ ses = [r \in Request |-> None]
    /\ tok = [r \in Request |-> None]
    /\ ids = [r \in Request |-> {}]
    /\ pwd = [r \in Request |-> 0]
    /\ owed = [r \in Request |-> {}]
    /\ closed = {}
    /\ parent = [t \in TokenId |-> None]
    /\ openedWith = [s \in SessionId |-> 0]
    /\ settled = [u \in User |-> 0]
    /\ applied = [k \in Link |-> 0]

-----------------------------------------------------------------------------
(* Control of a handler.                                                   *)

At(r, label) == pc[r] = label

\* Go on to the next awaited query with the locals as they are.
Goto(r, label) ==
    /\ pc' = [pc EXCEPT ![r] = label]
    /\ UNCHANGED localVars

\* Return or throw: the handler's locals are gone.
Leave(r) ==
    /\ pc' = [pc EXCEPT ![r] = "idle"]
    /\ usr' = [usr EXCEPT ![r] = None]
    /\ ses' = [ses EXCEPT ![r] = None]
    /\ tok' = [tok EXCEPT ![r] = None]
    /\ ids' = [ids EXCEPT ![r] = {}]
    /\ pwd' = [pwd EXCEPT ![r] = 0]
    /\ owed' = [owed EXCEPT ![r] = {}]

\* Throw before anything else is written.
Reject(r) ==
    /\ Leave(r)
    /\ UNCHANGED <<accountVars, sessionVars, tokenVars, linkVars, historyVars,
                   delivered>>

\* Return with success after the last write: what was owed is now promised,
\* and a change of password is acknowledged.
Acknowledge(r) ==
    /\ Leave(r)
    /\ closed' = closed \cup owed[r]
    /\ settled' = IF usr[r] \in User /\ pwd[r] > settled[usr[r]]
                  THEN [settled EXCEPT ![usr[r]] = pwd[r]] ELSE settled

-----------------------------------------------------------------------------
(* The repositories.                                                       *)

SessionsOf(u) == {s \in SessionId : userId[s] = u}
TokensOf(S) == {t \in TokenId : sessionId[t] \in S}

\* Plausible slips in the operations below; only mutation runs use them.
findInactiveSessions(u) == {s \in SessionId \ isActive : userId[s] = u}

findAllActiveSessions(u) == isActive

createSessionKeyedByUser(u, s, p) ==
    /\ userId[s] = None
    /\ userId' = [userId EXCEPT ![s] = u]
    /\ isActive' = isActive \cup {u}
    /\ openedWith' = [openedWith EXCEPT ![s] = p]

revokeNothing(t) == UNCHANGED tokenVars

CloseTokensOnly(r) ==
    /\ At(r, "closeAll.write")
    /\ revokedAt' = revokedAt \cup TokensOf(ids[r])
    /\ Acknowledge(r)
    /\ UNCHANGED <<accountVars, sessionVars, sessionId, expired, parent,
                   linkVars, delivered>>

findActiveSessions(u) == {s \in isActive : userId[s] = u}

createSession(u, s, p) ==
    /\ userId[s] = None
    /\ userId' = [userId EXCEPT ![s] = u]
    /\ isActive' = isActive \cup {s}
    /\ openedWith' = [openedWith EXCEPT ![s] = p]

deactivateSession(s) ==
    /\ isActive' = isActive \ {s}
    /\ UNCHANGED <<userId, openedWith>>

\* t is a new row of session s; p is the token it replaces, if any.
createRefreshToken(s, t, p) ==
    /\ sessionId[t] = None
    /\ sessionId' = [sessionId EXCEPT ![t] = s]
    /\ parent' = [parent EXCEPT ![t] = p]
    /\ UNCHANGED <<revokedAt, expired>>

revokeRefreshToken(t) ==
    /\ revokedAt' = revokedAt \cup {t}
    /\ UNCHANGED <<sessionId, expired, parent>>

revokeAllSessionRefreshTokens(s) ==
    /\ revokedAt' = revokedAt \cup TokensOf({s})
    /\ UNCHANGED <<sessionId, expired, parent>>

\* Replacing the hash makes a password nobody has used before the current one.
updateAuthProviderPassword(u) ==
    /\ passwordHash[u] < MaxPassword
    /\ passwordHash' = [passwordHash EXCEPT ![u] = @ + 1]
    /\ UNCHANGED deleted

\* The two queries of deactivateAllUserSessions: findMany, which returns
\* early on an empty result, and the $transaction on the ids it returned.
FindSessions(r) ==
    LET found == findActiveSessions(usr[r])
    IN  /\ At(r, "closeAll.find")
        /\ \/ /\ found = {}
              /\ Acknowledge(r)
           \/ /\ found # {}
              /\ pc' = [pc EXCEPT ![r] = "closeAll.write"]
              /\ ids' = [ids EXCEPT ![r] = found]
              /\ UNCHANGED <<usr, ses, tok, pwd, owed, historyVars>>
        /\ UNCHANGED <<accountVars, sessionVars, tokenVars, linkVars, delivered>>

CloseFound(r) ==
    /\ At(r, "closeAll.write")
    /\ revokedAt' = revokedAt \cup TokensOf(ids[r])
    /\ isActive' = isActive \ ids[r]
    /\ Acknowledge(r)
    /\ UNCHANGED <<accountVars, userId, openedWith, sessionId, expired, parent,
                   linkVars, delivered>>

-----------------------------------------------------------------------------
(* The environment.                                                        *)

\* A process dies or is restarted (autorestart), a query fails or the
\* connection to the client is lost: the rest of the handler never happens.
Abort(r) ==
    /\ "abort" \in Operations
    /\ pc[r] # "idle"
    /\ Reject(r)

\* The 30 days of a refresh token pass.
Expire(t) ==
    /\ "expire" \in Operations
    /\ sessionId[t] # None
    /\ expired' = expired \cup {t}
    /\ t \notin expired
    /\ UNCHANGED <<accountVars, sessionVars, sessionId, revokedAt, parent,
                   linkVars, historyVars, delivered, pc, localVars>>
=============================================================================
