------------------------------ MODULE MCNewsCache ------------------------------
(* Instances of NewsCache for TLC. *)
EXTENDS NewsCache, TLC

Everything == {"read", "create", "update", "rename", "delete", "view",
                "bookmark", "draft", "abort"}

\* Articles, slugs and handlers are only ever compared.
Interchangeable ==
    Permutations(Article) \cup Permutations(Slug) \cup Permutations(Request)
=============================================================================
