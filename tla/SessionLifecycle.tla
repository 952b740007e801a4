--------------------------- MODULE SessionLifecycle ----------------------------
(***************************************************************************)
(* What the authentication subsystem promises of device sessions, without  *)
(* handlers, queries or tokens: a user opens a session under a fresh id,   *)
(* only that user's doing ends it, it is reported as ended only once it    *)
(* is, and no ended session comes back.                                    *)
(***************************************************************************)
CONSTANTS Session, User, None

VARIABLES owner,    \* whose session it is, None before it is opened
          live,     \* the sessions in use
          reported  \* the sessions some success has reported as ended

vars == <<owner, live, reported>>

Init ==
    /\ owner = [s \in Session |-> None]
    /\ live = {}
    /\ reported = {}

Open(u, s) ==
    /\ owner[s] = None
    /\ owner' = [owner EXCEPT ![s] = u]
    /\ live' = live \cup {s}
    /\ UNCHANGED reported

\* The sessions in ended end, those in told are reported; either may be none.
End(u, ended, told) ==
    /\ \A s \in ended \cup told : owner[s] = u
    /\ ended \subseteq live
    /\ live' = live \ ended
    /\ told \cap live' = {}
    /\ reported' = reported \cup told
    /\ UNCHANGED owner

Next ==
    \E u \in User :
        \/ \E s \in Session : Open(u, s)
        \/ \E ended, told \in SUBSET Session : End(u, ended, told)

Spec == Init /\ [][Next]_vars
=============================================================================
