------------------------------- MODULE MCRecovery ------------------------------
(* An instance of Recovery for TLC: enough writes that an article can be      *)
(* renamed between the look-up and the write of another handler.              *)
EXTENDS Recovery

Writers == {"read", "create", "update", "rename", "delete", "abort"}
=============================================================================
