---------------------------------- MODULE Auth ----------------------------------
(***************************************************************************)
(* The authentication subsystem: every handler of Sessions and Passwords   *)
(* interleaved over one database, and what sessions, refresh tokens,       *)
(* passwords and reset links promise.                                      *)
(***************************************************************************)
EXTENDS Passwords

Arrive(r) == SessionArrival(r) \/ PasswordArrival(r)
Step(r) == SessionStep(r) \/ PasswordStep(r)

Next ==
    \/ \E r \in Request : Arrive(r) \/ Step(r) \/ Abort(r)
    \/ \E t \in TokenId : Expire(t)

Spec == Init /\ [][Next]_vars

\* A process that is not restarted runs a handler it has begun to its end:
\* the event loop and Postgres answer every query.
FairSpec == Spec /\ \A r \in Request : WF_vars(Step(r))

-----------------------------------------------------------------------------
\* A session that a logout, a revocation or a password change has reported
\* as ended is never active again, whatever handlers were half-way through
\* it at the time (logout.use-case.ts, user.repository.ts, deactivateAll-
\* UserSessions, whose findMany and $transaction are two steps).
ClosedStaysClosed == closed \cap isActive = {}

\* A refresh token that was exchanged is revoked, and stays in its family's
\* session: RefreshTokenUseCase revokes before it creates, so a crash between
\* the two can lose a token but never leave two to one chain.
ExchangedIsRevoked ==
    \A t \in TokenId : parent[t] # None =>
        /\ parent[t] \in revokedAt
        /\ sessionId[parent[t]] = sessionId[t]

Twins(a, b) == a # b /\ parent[a] = parent[b] /\ parent[a] # None

\* Two unrevoked refresh tokens of one session exist only if some token of
\* that session was exchanged twice, that is by two refreshes that both read
\* it before either revoked it.  No other interleaving of logins, refreshes,
\* logouts, crashes and expiry forks a session.
ForkNeedsDoubleExchange ==
    \A t, v \in TokenId :
        /\ t # v
        /\ sessionId[t] # None
        /\ sessionId[t] = sessionId[v]
        /\ t \notin revokedAt
        /\ v \notin revokedAt
        => \E a, b \in TokenId : Twins(a, b) /\ sessionId[a] = sessionId[t]

\* What the README promises of reuse: when one token has been exchanged for
\* two that clients hold, the session is invalidated.
ReuseInvalidatesSession ==
    \A a, b \in TokenId \cap delivered :
        Twins(a, b) => sessionId[a] \notin isActive

\* r is about to act for the owner of session s: as the signed-in user, or
\* by presenting a refresh token of s itself.
ActsFor(r, s) ==
    \/ usr[r] # None /\ usr[r] = userId[s]
    \/ tok[r] \in TokenId /\ sessionId[tok[r]] = s

\* A step ends a session, or revokes a token, only on behalf of the session's
\* own user, whichever ids the client names and however stale the rows are
\* that the handler read (README: independent sessions per device).
OnlyOwnersEnd ==
    [][\A s \in SessionId :
          \/ s \in isActive /\ s \notin isActive'
          \/ \E t \in TokenId : sessionId[t] = s /\ t \in revokedAt' \ revokedAt
          => \E r \in Request : pc[r] # "idle" /\ pc'[r] # pc[r] /\ ActsFor(r, s)]_vars

WorkingOn(r, s) == ses[r] = s /\ pc[r] # "idle"

\* Without crashes no client is left with an active session and no token to
\* refresh it: some token of the session is unrevoked, or has expired, or a
\* handler that will supply one or end the session is at work on it.
NeverStranded ==
    \A s \in isActive :
        \/ \E t \in TokensOf({s}) : t \notin revokedAt \/ t \in expired
        \/ \E r \in Request : WorkingOn(r, s)

\* A reset link is spent only after it has set a password: a crash in the
\* middle of ResetPasswordUseCase leaves a link that can be tried again.
LinkSetsPasswordFirst == \A k \in usedAt : applied[k] > 0

\* What the test of reset-password and its error message promise: a link
\* sets a password once.
LinkSetsPasswordOnce == \A k \in Link : applied[k] <= 1

\* What the API documentation of change-password promises: once a change is
\* acknowledged, no session opened with an older password is active.
ChangeEndsOlderSessions ==
    \A s \in isActive : openedWith[s] >= settled[userId[s]]

\* A client that presents a revoked refresh token ends the session for good,
\* also when refreshes and logouts of the same session are in flight.
ReuseEndsSession ==
    \A r \in Request : \A s \in SessionId :
        At(r, "refresh.reuse") /\ ses[r] = s ~> [](s \notin isActive)

-----------------------------------------------------------------------------
(* What the subsystem implements.                                          *)

Lifecycle == INSTANCE SessionLifecycle WITH
    Session <- SessionId, owner <- userId, live <- isActive, reported <- closed

\* However the handlers interleave, crash and work on rows that others have
\* changed, the session table behaves as SessionLifecycle promises.
ImplementsLifecycle == Lifecycle!Spec

\* The token an exchange has revoked stands for the session until the
\* exchange has created its successor.
InExchange(s) == {tok[r] : r \in {q \in Request : At(q, "refresh.create") /\ ses[q] = s}}

\* The refresh tokens session s can go on with.
Credentials(s) ==
    IF s \in isActive THEN {t \in TokensOf({s}) : t \notin revokedAt} \cup InExchange(s)
    ELSE {}

Exchange == INSTANCE TokenRotation WITH
    Session <- SessionId, Token <- TokenId,
    credentials <- [s \in SessionId |-> Credentials(s)],
    used <- [s \in SessionId |-> TokensOf({s})]

\* One request at a time, with processes that die at any query, the three
\* queries of an exchange (find, revoke, create) are one step of
\* TokenRotation.
ImplementsRotation == Exchange!Spec
=============================================================================
