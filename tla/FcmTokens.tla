-------------------------------- MODULE FcmTokens --------------------------------
(***************************************************************************)
(* The push tokens of one user (UserService.registerFcmToken and remove-   *)
(* FcmToken, UserRepository.addFcmToken and removeFcmToken).  They are one *)
(* JSON array in users.fcmTokens; each handler reads the array in one      *)
(* query and writes a changed copy of it in a later one.  An array is a    *)
(* bag: what it holds how often, for nothing depends on its order.         *)
(***************************************************************************)
EXTENDS Naturals

CONSTANTS Token,       \* device tokens
          Request, None

Assumptions == None \notin Token

VARIABLES
    fcmTokens,  \* users.fcmTokens
    pc,         \* where each handler is
    arg,        \* the token in its request
    copy,       \* the array it will write
    registered, \* history: tokens whose last finished request added them
    ever,       \* history: tokens some client ever asked to add
    serial      \* history: no two handlers have overlapped

vars == <<fcmTokens, pc, arg, copy, registered, ever, serial>>
localVars == <<arg, copy>>

Label == {"idle", "add.read", "add.write", "remove.read", "remove.write"}

Array == [Token -> Nat]
Empty == [t \in Token |-> 0]
Holds(array) == {t \in Token : array[t] > 0}
Distinct(array) == \A t \in Token : array[t] <= 1

TypeOK ==
    /\ fcmTokens \in Array
    /\ pc \in [Request -> Label]
    /\ arg \in [Request -> Token \cup {None}]
    /\ copy \in [Request -> Array]
    /\ registered \subseteq Token
    /\ ever \subseteq Token
    /\ serial \in BOOLEAN

Init ==
    /\ fcmTokens = Empty
    /\ pc = [r \in Request |-> "idle"]
    /\ arg = [r \in Request |-> None]
    /\ copy = [r \in Request |-> Empty]
    /\ registered = {}
    /\ ever = {}
    /\ serial = TRUE

-----------------------------------------------------------------------------
Leave(r) ==
    /\ pc' = [pc EXCEPT ![r] = "idle"]
    /\ arg' = [arg EXCEPT ![r] = None]
    /\ copy' = [copy EXCEPT ![r] = Empty]

Begin(r, t, label) ==
    /\ pc[r] = "idle"
    /\ pc' = [pc EXCEPT ![r] = label]
    /\ arg' = [arg EXCEPT ![r] = t]
    /\ serial' = (serial /\ \A q \in Request : pc[q] = "idle")
    /\ UNCHANGED <<fcmTokens, copy, registered>>

\* findById finds the user, who is signed in.
RegisterFcmToken(r, t) ==
    /\ Begin(r, t, "add.read")
    /\ ever' = ever \cup {t}

RemoveFcmToken(r, t) ==
    /\ Begin(r, t, "remove.read")
    /\ UNCHANGED ever

\* Plausible slips in the reads below; only mutation runs use them.
AddReadUnchecked(r) ==
    /\ pc[r] = "add.read"
    /\ pc' = [pc EXCEPT ![r] = "add.write"]
    /\ copy' = [copy EXCEPT ![r] = [fcmTokens EXCEPT ![arg[r]] = @ + 1]]
    /\ UNCHANGED <<fcmTokens, arg, registered, ever, serial>>

RemoveReadKeeping(r) ==
    /\ pc[r] = "remove.read"
    /\ pc' = [pc EXCEPT ![r] = "remove.write"]
    /\ copy' = [copy EXCEPT ![r] = fcmTokens]
    /\ UNCHANGED <<fcmTokens, arg, registered, ever, serial>>

RemoveReadOnce(r) ==
    /\ pc[r] = "remove.read"
    /\ pc' = [pc EXCEPT ![r] = "remove.write"]
    /\ copy' = [copy EXCEPT ![r] = [fcmTokens EXCEPT ![arg[r]] = @ - 1]]
    /\ UNCHANGED <<fcmTokens, arg, registered, ever, serial>>

\* findUnique of addFcmToken: a token that is there already is not written.
AddRead(r) ==
    /\ pc[r] = "add.read"
    /\ IF arg[r] \in Holds(fcmTokens)
       THEN /\ registered' = registered \cup {arg[r]}
            /\ Leave(r)
       ELSE /\ pc' = [pc EXCEPT ![r] = "add.write"]
            /\ copy' = [copy EXCEPT ![r] = [fcmTokens EXCEPT ![arg[r]] = @ + 1]]
            /\ UNCHANGED <<arg, registered>>
    /\ UNCHANGED <<fcmTokens, ever, serial>>

AddWrite(r) ==
    /\ pc[r] = "add.write"
    /\ fcmTokens' = copy[r]
    /\ registered' = registered \cup {arg[r]}
    /\ Leave(r)
    /\ UNCHANGED <<ever, serial>>

\* findUnique of removeFcmToken; the array is written in any case.
RemoveRead(r) ==
    /\ pc[r] = "remove.read"
    /\ pc' = [pc EXCEPT ![r] = "remove.write"]
    /\ copy' = [copy EXCEPT ![r] = [fcmTokens EXCEPT ![arg[r]] = 0]]
    /\ UNCHANGED <<fcmTokens, arg, registered, ever, serial>>

RemoveWrite(r) ==
    /\ pc[r] = "remove.write"
    /\ fcmTokens' = copy[r]
    /\ registered' = registered \ {arg[r]}
    /\ Leave(r)
    /\ UNCHANGED <<ever, serial>>

\* A process dies or a query fails.
Abort(r) ==
    /\ pc[r] # "idle"
    /\ Leave(r)
    /\ UNCHANGED <<fcmTokens, registered, ever, serial>>

Next ==
    \E r \in Request :
        \/ \E t \in Token : RegisterFcmToken(r, t) \/ RemoveFcmToken(r, t)
        \/ AddRead(r) \/ AddWrite(r) \/ RemoveRead(r) \/ RemoveWrite(r)
        \/ Abort(r)

Spec == Init /\ [][Next]_vars

-----------------------------------------------------------------------------
\* However handlers overwrite each other's arrays, no device gets a push
\* message twice, and only tokens that some client asked to add get any.
OnlyDistinctRequested ==
    /\ Distinct(fcmTokens)
    /\ Holds(fcmTokens) \subseteq ever

\* As long as the requests of a user do not overlap, the array holds the
\* tokens whose last finished request added them, also after crashes.
SerialIsExact ==
    serial /\ (\A r \in Request : pc[r] = "idle") => Holds(fcmTokens) = registered
=============================================================================
