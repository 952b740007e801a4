------------------------------- MODULE MCAccounts -------------------------------
(* Instances of Accounts for TLC. *)
EXTENDS Accounts, TLC

CONSTANTS e1, e2, s1, s2

Everything == {"register", "verify", "social", "delete", "expire", "abort"}
Verifying == {"register", "verify", "expire", "advice"}

\* Two subject ids of one provider bring e1, and one of them also e2: it has
\* another address, or AppleAuthService made e2 up for a token without one.
Tokens == {<<s1, e1>>, <<s2, e1>>, <<s1, e2>>}

Interchangeable ==
    Permutations(User) \cup Permutations(Link) \cup Permutations(Request)
=============================================================================
