----------------------------- MODULE TokenRotation -----------------------------
(***************************************************************************)
(* Refresh-token rotation as its clients are to see it: a session has one  *)
(* refresh token, which one indivisible step exchanges for a new one, until *)
(* the session has none for good.                                          *)
(***************************************************************************)
CONSTANTS Session, Token

VARIABLES credentials,  \* the refresh tokens a session can go on with
          used          \* the tokens that were ever issued, and for whom

vars == <<credentials, used>>

Init ==
    /\ credentials = [s \in Session |-> {}]
    /\ used = [s \in Session |-> {}]

Fresh(t) == \A s \in Session : t \notin used[s]

Issue(s, t) ==
    /\ Fresh(t)
    /\ credentials' = [credentials EXCEPT ![s] = {t}]
    /\ used' = [used EXCEPT ![s] = @ \cup {t}]

Open(s, t) == used[s] = {} /\ Issue(s, t)

Rotate(s, t) == credentials[s] # {} /\ Issue(s, t)

\* Logouts and revocations, tokens found expired or presented twice, and
\* exchanges whose process died.
End(ended) ==
    /\ credentials' = [s \in Session |-> IF s \in ended THEN {} ELSE credentials[s]]
    /\ UNCHANGED used

Next ==
    \/ \E s \in Session, t \in Token : Open(s, t) \/ Rotate(s, t)
    \/ \E ended \in SUBSET Session : End(ended)

Spec == Init /\ [][Next]_vars
=============================================================================
