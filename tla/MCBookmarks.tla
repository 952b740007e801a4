------------------------------ MODULE MCBookmarks ------------------------------
(* Instances of Bookmarks for TLC. *)
EXTENDS Bookmarks, TLC

Interchangeable ==
    Permutations(User) \cup Permutations(Article) \cup Permutations(Request)
=============================================================================
