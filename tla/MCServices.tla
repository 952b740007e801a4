------------------------------- MODULE MCServices ------------------------------
(* An instance of Services for TLC. *)
EXTENDS Services, TLC

Everything == {"read", "walk", "create", "update", "delete", "abort"}

\* An update of a category changes its slug, to k2, or its parent, to none or
\* the newest category, with which it can close a loop.
SlugOrParent ==
    {<<k, 0>> : k \in Slug \ FeedSlug} \cup
    {<<None, p>> : p \in {None, MaxCategories}}

Owners == [n \in Notice |-> IF n = 1 THEN "reader" ELSE "other"]

\* Handlers are only ever compared.
Interchangeable == Permutations(Request)
=============================================================================
