-------------------------------- MODULE Accounts --------------------------------
(***************************************************************************)
(* How an account comes to exist, is verified and is deleted: register.    *)
(* use-case.ts, verify-email.use-case.ts, google-auth.use-case.ts, apple-  *)
(* auth.use-case.ts and UserRepository.softDelete.  The user row, its      *)
(* auth_providers rows and its verification token are written by separate  *)
(* queries of handlers that decided on an earlier read; three unique       *)
(* indexes are what they fall back on: users(email), auth_providers(user-  *)
(* Id, provider) and auth_providers(provider, providerUserId).             *)
(***************************************************************************)
EXTENDS Naturals, FiniteSets

CONSTANTS User,      \* ids the users table may still hand out
          Email, Link, Request,
          Google,    \* Google subject ids
          Apple,     \* Apple subject ids
          Claims,    \* the <<subject id, address>> pairs of accepted tokens
          None,      \* SQL null, and an unset local
          Renamed,   \* the address softDelete gives to a user
          Operations \* the requests (and faults) an instance includes

Identity == Google \cup Apple

ASSUME UnsetAssumption ==
    /\ None \notin User \cup Email \cup Link \cup Identity
    /\ Renamed \notin Email \cup {None}

SameProvider(i, j) == {i, j} \subseteq Google \/ {i, j} \subseteq Apple

\* verifyIdToken and verifyIdentityToken return a subject id and an address.
\* Nothing is assumed of the pairs: several ids may bring one address, one id
\* several, the address may not be a verified one, and AppleAuthService makes
\* one up when a token names none.
ASSUME ClaimsAssumption ==
    /\ Google \cap Apple = {}
    /\ Claims \subseteq Identity \X Email

VARIABLES
    email,      \* users.email; None: no such row yet
    verified,   \* users with isEmailVerified
    password,   \* users with an EMAIL row in auth_providers
    linked,     \* GOOGLE and APPLE rows: <<userId, providerUserId>>
    linkUser,   \* email_verification_tokens.userId; None: no such row yet
    usedAt,     \* verification tokens whose usedAt is set
    expired,    \* verification tokens whose expiresAt has passed
    inbox,      \* the address each link was mailed to; None: not mailed
    pc,         \* where each handler is
    usr, adr, idn, lnk,  \* its user, address, social identity and link
    unverified, \* handlers whose user row said isEmailVerified = false
    named,      \* history: addresses that a provider's token has brought
    signedIn,   \* history: the <<userId, identity>> of social sessions
    advised,    \* history, kept by instances with "advice": addresses that
                \* were told to register again
    refused,    \* history: addresses that were refused after that
    dropped     \* history: users whose handler crashed before it was done

rowVars == <<email, verified, password, linked>>
linkVars == <<linkUser, usedAt, expired, inbox>>
localVars == <<usr, adr, idn, lnk, unverified>>
historyVars == <<named, signedIn, advised, refused, dropped>>
vars == <<email, verified, password, linked, linkUser, usedAt, expired, inbox,
          pc, usr, adr, idn, lnk, unverified,
          named, signedIn, advised, refused, dropped>>

Label == {"idle", "register.create", "register.provider", "register.token",
          "register.mail", "verify.mark", "verify.user", "social.create",
          "social.find", "social.link", "social.verify", "social.session"}

TypeOK ==
    /\ email \in [User -> Email \cup {None, Renamed}]
    /\ verified \subseteq User
    /\ password \subseteq User
    /\ linked \subseteq User \X Identity
    /\ linkUser \in [Link -> User \cup {None}]
    /\ usedAt \subseteq Link
    /\ expired \subseteq Link
    /\ inbox \in [Link -> Email \cup {None}]
    /\ pc \in [Request -> Label]
    /\ usr \in [Request -> User \cup {None}]
    /\ adr \in [Request -> Email \cup {None}]
    /\ idn \in [Request -> Identity \cup {None}]
    /\ lnk \in [Request -> Link \cup {None}]
    /\ unverified \subseteq Request
    /\ named \subseteq Email
    /\ signedIn \subseteq User \X Identity
    /\ advised \subseteq Email
    /\ refused \subseteq Email
    /\ dropped \subseteq User

Init ==
    /\ email = [u \in User |-> None]
    /\ verified = {}
    /\ password = {}
    /\ linked = {}
    /\ linkUser = [k \in Link |-> None]
    /\ usedAt = {}
    /\ expired = {}
    /\ inbox = [k \in Link |-> None]
    /\ pc = [r \in Request |-> "idle"]
    /\ usr = [r \in Request |-> None]
    /\ adr = [r \in Request |-> None]
    /\ idn = [r \in Request |-> None]
    /\ lnk = [r \in Request |-> None]
    /\ unverified = {}
    /\ named = {}
    /\ signedIn = {}
    /\ advised = {}
    /\ refused = {}
    /\ dropped = {}

-----------------------------------------------------------------------------
At(r, label) == pc[r] = label

Goto(r, label) ==
    /\ pc' = [pc EXCEPT ![r] = label]
    /\ UNCHANGED localVars

Leave(r) ==
    /\ pc' = [pc EXCEPT ![r] = "idle"]
    /\ usr' = [usr EXCEPT ![r] = None]
    /\ adr' = [adr EXCEPT ![r] = None]
    /\ idn' = [idn EXCEPT ![r] = None]
    /\ lnk' = [lnk EXCEPT ![r] = None]
    /\ unverified' = unverified \ {r}

-----------------------------------------------------------------------------
(* AuthRepository.  A query that a unique index refuses throws, and the    *)
(* handler ends: see the ELSE branches of its callers.                     *)

findUserByEmail(e) == {u \in User : email[u] = e}
findAuthProvider(u, i) == {j \in Identity : SameProvider(i, j) /\ <<u, j>> \in linked}
EmailTaken(e) == findUserByEmail(e) # {}

\* Plausible slips in these and in the handlers below; only mutation runs
\* use them.
createUserWithoutEmail(u, e, isVerified) ==
    /\ email[u] = None
    /\ email' = [email EXCEPT ![u] = u]
    /\ verified' = IF isVerified THEN verified \cup {u} ELSE verified
    /\ UNCHANGED <<password, linked>>
SocialCreateUnchecked(r, u) ==
    /\ At(r, "social.create")
    /\ email[u] = None
    /\ email' = [email EXCEPT ![u] = adr[r]]
    /\ verified' = verified \cup {u}
    /\ pc' = [pc EXCEPT ![r] = "social.find"]
    /\ usr' = [usr EXCEPT ![r] = u]
    /\ UNCHANGED <<password, linked, linkVars, historyVars, adr, idn, lnk, unverified>>
VerifyUserByAddress(r) ==
    /\ At(r, "verify.user")
    /\ verified' = verified \cup findUserByEmail(inbox[lnk[r]])
    /\ Leave(r)
    /\ UNCHANGED <<email, password, linked, linkVars, historyVars>>
SocialLinkOrGoOn(r) ==
    /\ At(r, "social.link")
    /\ linked' = IF \E v \in User : <<v, idn[r]>> \in linked THEN linked
                 ELSE linked \cup {<<usr[r], idn[r]>>}
    /\ Goto(r, "social.session")
    /\ UNCHANGED <<email, verified, password, linkVars, historyVars>>
VerifyMarkOnly(r) ==
    /\ At(r, "verify.mark")
    /\ usedAt' = usedAt \cup {lnk[r]}
    /\ Leave(r)
    /\ UNCHANGED <<rowVars, linkUser, expired, inbox, historyVars>>

\* The unique indexes (userId, provider) and (provider, providerUserId).
ProviderTaken(u, i) ==
    \/ findAuthProvider(u, i) # {}
    \/ \E v \in User : <<v, i>> \in linked

createUser(u, e, isVerified) ==
    /\ email[u] = None
    /\ email' = [email EXCEPT ![u] = e]
    /\ verified' = IF isVerified THEN verified \cup {u} ELSE verified
    /\ UNCHANGED <<password, linked>>

markEmailVerified(u) ==
    /\ verified' = verified \cup {u}
    /\ UNCHANGED <<email, password, linked>>

-----------------------------------------------------------------------------
(* RegisterUseCase.execute.                                                *)

\* findUserByEmail: an address that is registered is refused.
Register(r, e) ==
    /\ "register" \in Operations
    /\ At(r, "idle")
    /\ IF EmailTaken(e)
       THEN /\ refused' = refused \cup ({e} \cap advised)
            /\ UNCHANGED <<pc, localVars>>
       ELSE /\ pc' = [pc EXCEPT ![r] = "register.create"]
            /\ adr' = [adr EXCEPT ![r] = e]
            /\ UNCHANGED <<usr, idn, lnk, unverified, refused>>
    /\ UNCHANGED <<rowVars, linkVars, named, signedIn, advised, dropped>>

RegisterCreate(r, u) ==
    /\ At(r, "register.create")
    /\ IF EmailTaken(adr[r])
       THEN Leave(r) /\ UNCHANGED rowVars
       ELSE /\ createUser(u, adr[r], FALSE)
            /\ pc' = [pc EXCEPT ![r] = "register.provider"]
            /\ usr' = [usr EXCEPT ![r] = u]
            /\ UNCHANGED <<adr, idn, lnk, unverified>>
    /\ UNCHANGED <<linkVars, historyVars>>

RegisterProvider(r) ==
    /\ At(r, "register.provider")
    /\ password' = password \cup {usr[r]}
    /\ Goto(r, "register.token")
    /\ UNCHANGED <<email, verified, linked, linkVars, historyVars>>

RegisterToken(r, k) ==
    /\ At(r, "register.token")
    /\ linkUser[k] = None
    /\ linkUser' = [linkUser EXCEPT ![k] = usr[r]]
    /\ pc' = [pc EXCEPT ![r] = "register.mail"]
    /\ lnk' = [lnk EXCEPT ![r] = k]
    /\ UNCHANGED <<usr, adr, idn, unverified>>
    /\ UNCHANGED <<rowVars, usedAt, expired, inbox, historyVars>>

\* sendVerificationEmail.  A mail server that refuses is an Abort.
RegisterMail(r) ==
    /\ At(r, "register.mail")
    /\ inbox' = [inbox EXCEPT ![lnk[r]] = adr[r]]
    /\ Leave(r)
    /\ UNCHANGED <<rowVars, linkUser, usedAt, expired, historyVars>>

-----------------------------------------------------------------------------
(* VerifyEmailUseCase.execute: whoever reads the mailbox follows the link. *)

\* findEmailVerificationToken; a used link is rejected, and so is an expired
\* one, with the advice to register again.
VerifyEmail(r, k) ==
    /\ "verify" \in Operations
    /\ At(r, "idle")
    /\ inbox[k] # None
    /\ k \notin usedAt
    /\ IF k \in expired
       THEN /\ advised' = advised \cup {e \in {inbox[k]} : "advice" \in Operations}
            /\ UNCHANGED <<pc, localVars>>
       ELSE /\ pc' = [pc EXCEPT ![r] = "verify.mark"]
            /\ lnk' = [lnk EXCEPT ![r] = k]
            /\ UNCHANGED <<usr, adr, idn, unverified, advised>>
    /\ UNCHANGED <<rowVars, linkVars, named, signedIn, refused, dropped>>

VerifyMark(r) ==
    /\ At(r, "verify.mark")
    /\ usedAt' = usedAt \cup {lnk[r]}
    /\ Goto(r, "verify.user")
    /\ UNCHANGED <<rowVars, linkUser, expired, inbox, historyVars>>

VerifyUser(r) ==
    /\ At(r, "verify.user")
    /\ markEmailVerified(linkUser[lnk[r]])
    /\ Leave(r)
    /\ UNCHANGED <<linkVars, historyVars>>

-----------------------------------------------------------------------------
(* GoogleAuthUseCase.execute and AppleAuthUseCase.execute, which run the   *)
(* same queries.  Neither looks at the status of the user.                 *)

\* The token is verified, then findUserByEmail: the account is the one that
\* has the address, and whether the provider has verified the address
\* (isEmailVerified of both services) is not looked at.
SignIn(r, i, e) ==
    LET found == findUserByEmail(e)
    IN  /\ "social" \in Operations
        /\ At(r, "idle")
        /\ <<i, e>> \in Claims
        /\ named' = named \cup {e}
        /\ idn' = [idn EXCEPT ![r] = i]
        /\ adr' = [adr EXCEPT ![r] = e]
        /\ \/ /\ found = {}
              /\ pc' = [pc EXCEPT ![r] = "social.create"]
              /\ UNCHANGED <<usr, unverified>>
           \/ \E u \in found :
              /\ pc' = [pc EXCEPT ![r] = "social.find"]
              /\ usr' = [usr EXCEPT ![r] = u]
              /\ unverified' = IF u \in verified THEN unverified
                               ELSE unverified \cup {r}
        /\ UNCHANGED <<rowVars, linkVars, lnk, signedIn, advised, refused, dropped>>

SocialCreate(r, u) ==
    /\ At(r, "social.create")
    /\ IF EmailTaken(adr[r])
       THEN Leave(r) /\ UNCHANGED rowVars
       ELSE /\ createUser(u, adr[r], TRUE)
            /\ pc' = [pc EXCEPT ![r] = "social.find"]
            /\ usr' = [usr EXCEPT ![r] = u]
            /\ UNCHANGED <<adr, idn, lnk, unverified>>
    /\ UNCHANGED <<linkVars, historyVars>>

Linked(r) == IF r \in unverified THEN "social.verify" ELSE "social.session"

\* findAuthProvider: a row of the same provider will do, whatever its
\* providerUserId.
SocialFind(r) ==
    /\ At(r, "social.find")
    /\ Goto(r, IF findAuthProvider(usr[r], idn[r]) = {} THEN "social.link"
               ELSE Linked(r))
    /\ UNCHANGED <<rowVars, linkVars, historyVars>>

SocialLink(r) ==
    /\ At(r, "social.link")
    /\ IF ProviderTaken(usr[r], idn[r])
       THEN Leave(r) /\ UNCHANGED linked
       ELSE /\ linked' = linked \cup {<<usr[r], idn[r]>>}
            /\ Goto(r, Linked(r))
    /\ UNCHANGED <<email, verified, password, linkVars, historyVars>>

SocialVerify(r) ==
    /\ At(r, "social.verify")
    /\ markEmailVerified(usr[r])
    /\ Goto(r, "social.session")
    /\ UNCHANGED <<linkVars, historyVars>>

\* createSession; what follows is the end of a login (see Passwords).
SocialSession(r) ==
    /\ At(r, "social.session")
    /\ signedIn' = signedIn \cup {<<usr[r], idn[r]>>}
    /\ Leave(r)
    /\ UNCHANGED <<rowVars, linkVars, named, advised, refused, dropped>>

-----------------------------------------------------------------------------
\* UserRepository.softDelete, for a user who has signed in: the address is
\* free again, and the auth_providers rows stay.
SoftDelete(u) ==
    /\ "delete" \in Operations
    /\ u \in verified
    /\ u \in password \/ \E i \in Identity : <<u, i>> \in signedIn
    /\ email[u] # Renamed
    /\ email' = [email EXCEPT ![u] = Renamed]
    /\ UNCHANGED <<verified, password, linked, linkVars, pc, localVars, historyVars>>

\* The 24 hours of a verification link pass.
Expire(k) ==
    /\ "expire" \in Operations
    /\ linkUser[k] # None
    /\ k \notin expired
    /\ expired' = expired \cup {k}
    /\ UNCHANGED <<rowVars, linkUser, usedAt, inbox, pc, localVars, historyVars>>

\* The account that still waits for a row handler r has not written: its
\* provider, its link or the mail of it, or the mark of a spent link.
WorksFor(r, u) ==
    \/ /\ pc[r] \in {"register.provider", "register.token", "register.mail",
                      "social.find", "social.link"}
       /\ usr[r] = u
    \/ At(r, "verify.user") /\ linkUser[lnk[r]] = u

\* A process dies, or a query or the mail server fails: the rest of the
\* handler never happens.
Abort(r) ==
    /\ "abort" \in Operations
    /\ pc[r] # "idle"
    /\ Leave(r)
    /\ dropped' = dropped \cup {u \in User : WorksFor(r, u)}
    /\ UNCHANGED <<rowVars, linkVars, named, signedIn, advised, refused>>

Arrive(r) ==
    \/ \E e \in Email : Register(r, e)
    \/ \E k \in Link : VerifyEmail(r, k)
    \/ \E i \in Identity, e \in Email : SignIn(r, i, e)

Step(r) ==
    \/ \E u \in User : RegisterCreate(r, u)
    \/ RegisterProvider(r)
    \/ \E k \in Link : RegisterToken(r, k)
    \/ RegisterMail(r)
    \/ VerifyMark(r)
    \/ VerifyUser(r)
    \/ \E u \in User : SocialCreate(r, u)
    \/ SocialFind(r)
    \/ SocialLink(r)
    \/ SocialVerify(r)
    \/ SocialSession(r)

Next ==
    \/ \E r \in Request : Arrive(r) \/ Step(r) \/ Abort(r)
    \/ \E u \in User : SoftDelete(u)
    \/ \E k \in Link : Expire(k)

Spec == Init /\ [][Next]_vars

-----------------------------------------------------------------------------
\* A user row says isEmailVerified only if a link mailed to its present
\* address was followed for this very row, or if a provider's token brought
\* the address: also when a registration, a sign-in and a deletion race for
\* one address and it passes to another row.  The token is taken as it is, so
\* the mark does not say that the provider has verified the address.
VerifiedForAReason ==
    \A u \in verified : email[u] \in Email =>
        \/ \E k \in usedAt : linkUser[k] = u /\ inbox[k] = email[u]
        \/ email[u] \in named

\* Whoever was ever linked or signed in to u.
HoldersOf(u) == {i \in Identity : <<u, i>> \in linked \cup signedIn}

\* An account is shared by those who bring its address, and by nobody else:
\* whoever was linked or signed in to it brought the one address that the row
\* has, or had before it was deleted, and finds a provider row of his
\* provider there, not always his own.  Two first sign-ins at once, a sign-in
\* racing a deletion and crashes between user and provider row keep to that.
AccountsHaveOneAddress ==
    \A u \in User : HoldersOf(u) # {} => \E e \in Email :
        /\ email[u] \in {e, Renamed}
        /\ \A i \in HoldersOf(u) : <<i, e>> \in Claims /\ findAuthProvider(u, i) # {}

\* A link that verify-email will accept and whose mail went to the user.
LinkWorks(k, u) ==
    /\ linkUser[k] = u
    /\ inbox[k] = email[u]
    /\ k \notin usedAt \cup expired

\* What signs in to u: the password, which LoginUseCase takes from verified
\* users only, also after a link that still works; an identity that brings
\* the address and is linked; or what a handler is about to write.
HasWayIn(u) ==
    \/ u \in password /\ (u \in verified \/ \E k \in Link : LinkWorks(k, u))
    \/ \E i \in Identity : <<u, i>> \in linked /\ <<i, email[u]>> \in Claims
    \/ \E r \in Request : WorksFor(r, u)

\* Its link ran out unused: see AdviceCanBeFollowed.
LinkExpired(u) == \E k \in expired \ usedAt : linkUser[k] = u

\* The identity of its address is still linked to another account, one that
\* was deleted or has another address: the index turns its provider row away.
LinkedElsewhere(u) ==
    \E i \in Identity, v \in User :
        <<i, email[u]>> \in Claims /\ <<v, i>> \in linked /\ email[v] # email[u]

\* Every account in use has a way in but for three causes: its link ran out,
\* its identity is linked elsewhere, or a handler at work for this very
\* account crashed.  A handler that loses a race for a unique index leaves
\* nothing behind, and a crash harms no account but its own.
NobodyLockedOut ==
    \A u \in User : email[u] \in Email =>
        HasWayIn(u) \/ LinkExpired(u) \/ LinkedElsewhere(u) \/ u \in dropped

\* A spent verification link has verified its user or is about to, unless the
\* handler crashed between the two queries: of two that follow one link, and
\* of those that cross a sign-in, a crash or the end of the 24 hours, none
\* leaves a user who is told "already used" and still unverified.
SpentLinkVerifies ==
    \A k \in usedAt :
        \/ linkUser[k] \in verified \cup dropped
        \/ \E r \in Request : At(r, "verify.user") /\ lnk[r] = k

\* "Verification link has expired. Please register again." is advice that
\* can be followed: no address it was given to is then refused as registered.
AdviceCanBeFollowed == refused = {}
=============================================================================
