-------------------------------- MODULE MCAuth --------------------------------
(* Instances of Auth for TLC. *)
EXTENDS AuthInvariant, TLC

SessionOperations ==
    {"login", "refresh", "logout", "logoutAll", "revoke", "delete",
     "change", "abort"}
Calm == {"login", "refresh", "logout", "logoutAll", "revoke", "expire"}
Rotation == {"login", "refresh", "expire", "abort"}
Changing == {"login", "change"}
Forgetting == {"forgot", "reset"}

\* Handlers, users, sessions, tokens and links are only ever compared.
Interchangeable ==
    Permutations(Request) \cup Permutations(User) \cup Permutations(SessionId)
    \cup Permutations(TokenId) \cup Permutations(Link)
=============================================================================
