----------------------------- MODULE AccountsProofs ----------------------------
(***************************************************************************)
(* Proofs about Accounts, for any number of users, addresses, identities,  *)
(* tokens, links and handlers, crashes included: types, what a verified    *)
(* row was verified for, that an account belongs to those who bring its    *)
(* address, who has a way in and what becomes of a spent link.             *)
(***************************************************************************)
EXTENDS Accounts, TLAPS

\* Where a handler has a user row to go on with.
UserLabel == {"register.provider", "register.token", "register.mail",
              "social.find", "social.link", "social.verify", "social.session"}

\* What a handler may rely on between two of its queries.  The user row still
\* has the address of the request, unless it was deleted meanwhile.
Knows(r) ==
    /\ pc[r] \in {"register.create", "social.create"} => adr[r] \in Email
    /\ pc[r] \in UserLabel =>
          usr[r] \in User /\ adr[r] \in Email /\ email[usr[r]] \in {adr[r], Renamed}
    /\ pc[r] = "register.mail" =>
          lnk[r] \in Link /\ linkUser[lnk[r]] = usr[r] /\ inbox[lnk[r]] = None
    /\ pc[r] \in {"verify.mark", "verify.user"} =>
          lnk[r] \in Link /\ inbox[lnk[r]] # None
    /\ pc[r] = "verify.user" => lnk[r] \in usedAt
    /\ pc[r] \in {"social.create", "social.find", "social.link", "social.verify",
                  "social.session"} =>
          adr[r] \in named /\ <<idn[r], adr[r]>> \in Claims
    /\ pc[r] \in {"social.verify", "social.session"} =>
          findAuthProvider(usr[r], idn[r]) # {}

\* Links are mailed once, and to the address their user has or had.
Mails ==
    /\ \A k \in Link :
        /\ linkUser[k] # None => email[linkUser[k]] # None
        /\ inbox[k] # None =>
              linkUser[k] # None /\ email[linkUser[k]] \in {inbox[k], Renamed}
    /\ \A q, r \in Request :
        At(q, "register.mail") /\ At(r, "register.mail") /\ lnk[q] = lnk[r] => q = r

Reasons ==
    /\ \A u \in verified : email[u] # None
    /\ VerifiedForAReason

\* e is the address of row u, or was until it was deleted, and of everybody
\* who is linked or signed in to it or works on it.
AddressOf(u, e) ==
    /\ email[u] \in {e, Renamed}
    /\ \A i \in Identity : <<u, i>> \in linked \cup signedIn => <<i, e>> \in Claims
    /\ \A r \in Request : pc[r] \in UserLabel /\ usr[r] = u => adr[r] = e

\* Every row has one address, and whoever signed in to it found a provider row.
Links ==
    /\ \A p \in linked \cup signedIn : email[p[1]] # None
    /\ \A u \in User : email[u] # None => \E e \in Email : AddressOf(u, e)
    /\ \A p \in signedIn : findAuthProvider(p[1], p[2]) # {}

Inv == TypeOK /\ (\A r \in Request : Knows(r)) /\ Mails /\ Reasons /\ Links

-----------------------------------------------------------------------------
Same(q) == UNCHANGED <<pc[q], usr[q], adr[q], idn[q], lnk[q]>>

\* What every step does to the rows: they are added, and deleted by renaming.
Grows ==
    /\ \A u \in User : email[u] # None => email'[u] \in {email[u], Renamed}
    /\ linked \subseteq linked'
    /\ signedIn \subseteq signedIn'
    /\ named \subseteq named'
    /\ usedAt \subseteq usedAt'
    /\ \A k \in Link : linkUser[k] # None => linkUser'[k] = linkUser[k]
    /\ \A k \in Link : inbox[k] # None => inbox'[k] = inbox[k]

\* What a handler knows stays true while others work.
LEMMA OthersKnow ==
    ASSUME TypeOK, Grows, NEW q \in Request, Knows(q), Same(q),
           pc[q] = "register.mail" => inbox'[lnk[q]] = inbox[lnk[q]]
    PROVE  Knows(q)'
<1>1. findAuthProvider(usr[q], idn[q]) # {} => findAuthProvider(usr[q], idn[q])' # {}
  BY DEF Grows, Same, findAuthProvider
<1>2. QED
  BY <1>1, UnsetAssumption DEF TypeOK, Grows, Knows, Same, UserLabel

\* Nobody new comes to a row but those who bring its address.
LEMMA LinksStay ==
    ASSUME Inv, Grows, TypeOK', \A q \in Request : Knows(q)',
           \A u \in User : email[u] = None => email'[u] = None,
           \A p \in linked' \cup signedIn' :
               \/ p \in linked \cup signedIn
               \/ \E q \in Request :
                     pc[q] \in {"social.link", "social.session"} /\ p = <<usr[q], idn[q]>>,
           \A p \in signedIn' : p \in signedIn \/ findAuthProvider(p[1], p[2])' # {},
           \A q \in Request : pc'[q] \in UserLabel =>
               \/ pc[q] \in UserLabel /\ usr'[q] = usr[q] /\ adr'[q] = adr[q]
               \/ email[usr'[q]] = adr'[q]
    PROVE  Links'
<1> USE UnsetAssumption
<1>1. \A q \in Request : Knows(q)
  BY DEF Inv
<1>2. ASSUME NEW p \in linked' \cup signedIn' PROVE email'[p[1]] # None
  <2>1. p[1] \in User
    BY DEF TypeOK
  <2>2. CASE p \in linked \cup signedIn
    BY <2>1, <2>2 DEF Inv, Links, Grows
  <2>3. ASSUME NEW q \in Request, pc[q] \in {"social.link", "social.session"},
               p = <<usr[q], idn[q]>>
        PROVE  email'[p[1]] # None
    <3>1. p[1] = usr[q]
      BY <2>3
    <3>2. email[usr[q]] \in {adr[q], Renamed} /\ adr[q] \in Email
      BY <1>1, <2>3 DEF Knows, UserLabel
    <3>3. QED
      BY <2>1, <3>1, <3>2 DEF Grows
  <2>4. QED
    BY <2>2, <2>3
<1>3. ASSUME NEW u \in User, email'[u] # None
      PROVE  \E e \in Email : AddressOf(u, e)'
  <2>1. PICK e \in Email : AddressOf(u, e)
    BY <1>3 DEF Inv, Links
  <2>2. email'[u] \in {e, Renamed}
    BY <1>3, <2>1 DEF AddressOf, Grows
  <2>3. ASSUME NEW i \in Identity, <<u, i>> \in linked' \cup signedIn'
        PROVE  <<i, e>> \in Claims
    <3>1. CASE <<u, i>> \in linked \cup signedIn
      BY <2>1, <3>1 DEF AddressOf
    <3>2. ASSUME NEW q \in Request, pc[q] \in {"social.link", "social.session"},
                 <<u, i>> = <<usr[q], idn[q]>>
          PROVE  <<i, e>> \in Claims
      <4>1. adr[q] = e
        BY <2>1, <3>2 DEF AddressOf, UserLabel
      <4>2. <<idn[q], adr[q]>> \in Claims
        BY <1>1, <3>2 DEF Knows
      <4>3. QED
        BY <3>2, <4>1, <4>2
    <3>3. QED
      BY <2>3, <3>1, <3>2
  <2>4. ASSUME NEW q \in Request, pc'[q] \in UserLabel, usr'[q] = u
        PROVE  adr'[q] = e
    <3>1. adr'[q] \in Email
      BY <2>4 DEF Knows
    <3>2. QED
      BY <2>1, <2>4, <3>1 DEF AddressOf
  <2>5. QED
    BY <2>2, <2>3, <2>4 DEF AddressOf
<1>4. ASSUME NEW p \in signedIn' PROVE findAuthProvider(p[1], p[2])' # {}
  <2>1. CASE p \in signedIn
    BY <2>1 DEF Inv, Links, Grows, findAuthProvider
  <2>2. QED
    BY <2>1
<1>5. QED
  BY <1>2, <1>3, <1>4 DEF Links

\* A step that writes neither rows nor links, of a handler that has the user
\* it had, or one whose row it has just read.
LEMMA QuietStep ==
    ASSUME Inv, NEW r \in Request, TypeOK', Knows(r)',
           UNCHANGED <<email, verified, linked, linkUser, inbox, signedIn>>,
           named \subseteq named', usedAt \subseteq usedAt', pc'[r] # "register.mail",
           \A q \in Request \ {r} : Same(q),
           pc'[r] \in UserLabel =>
               \/ pc[r] \in UserLabel /\ usr'[r] = usr[r] /\ adr'[r] = adr[r]
               \/ email[usr'[r]] = adr'[r]
    PROVE  Inv'
<1> USE UnsetAssumption DEF Inv
<1>1. Grows
  BY DEF Grows
<1>2. \A q \in Request : Knows(q)'
  BY <1>1, OthersKnow
<1>3. Mails'
  BY DEF Mails, Same, At
<1>4. Reasons'
  BY DEF Reasons, VerifiedForAReason
<1>5. Links'
  BY <1>1, <1>2, LinksStay DEF Same
<1>6. QED
  BY <1>2, <1>3, <1>4, <1>5

\* A handler that ends, answered or crashed, forgets what it knew and nothing else.
LEMMA LeaveStep ==
    ASSUME Inv, NEW r \in Request, Leave(r), UNCHANGED <<rowVars, signedIn>>,
           UNCHANGED <<linkUser, inbox, usedAt, named>>, TypeOK'
    PROVE  Inv'
<1>1. /\ \A q \in Request \ {r} : Same(q)
      /\ pc'[r] = "idle"
  BY DEF Inv, TypeOK, Leave, Same
<1>2. Knows(r)'
  BY <1>1 DEF Knows, UserLabel
<1>3. QED
  BY <1>1, <1>2, QuietStep DEF rowVars, UserLabel

-----------------------------------------------------------------------------
USE UnsetAssumption

\* The invariant holds of an empty database with no handler at work.
LEMMA InitInv == Init => Inv
BY DEF Init, Inv, TypeOK, Label, Knows, Mails, Reasons, VerifiedForAReason, Links,
       UserLabel, At


\* A registration looks its address up (RegisterUseCase).
LEMMA RegisterStep ==
    ASSUME Inv, NEW r \in Request, NEW e \in Email, Register(r, e)
    PROVE  Inv'
<1> USE DEF Register, rowVars, linkVars, localVars, At
<1>1. TypeOK'
  BY DEF Inv, TypeOK, Label
<1>2. /\ \A q \in Request \ {r} : Same(q)
      /\ pc'[r] \in {"idle", "register.create"}
      /\ pc'[r] = "register.create" => adr'[r] = e
  BY DEF Inv, TypeOK, Same
<1>3. Knows(r)'
  BY <1>2 DEF Knows, UserLabel
<1>4. QED
  BY <1>1, <1>2, <1>3, QuietStep DEF UserLabel

\* The link in hand was mailed, and not used before.
LEMMA VerifyEmailStep ==
    ASSUME Inv, NEW r \in Request, NEW k \in Link, VerifyEmail(r, k)
    PROVE  Inv'
<1> USE DEF VerifyEmail, rowVars, linkVars, localVars, At
<1>1. TypeOK'
  BY DEF Inv, TypeOK, Label
<1>2. /\ \A q \in Request \ {r} : Same(q)
      /\ pc'[r] \in {"idle", "verify.mark"}
      /\ pc'[r] = "verify.mark" => lnk'[r] = k
  BY DEF Inv, TypeOK, Same
<1>3. Knows(r)'
  BY <1>2 DEF Knows, UserLabel
<1>4. QED
  BY <1>1, <1>2, <1>3, QuietStep DEF UserLabel

\* A verification marks its link as used, before it marks the user.
LEMMA VerifyMarkStep ==
    ASSUME Inv, NEW r \in Request, VerifyMark(r)
    PROVE  Inv'
<1> USE DEF VerifyMark, Goto, rowVars, linkVars, localVars, historyVars, At
<1>1. TypeOK'
  BY DEF Inv, TypeOK, Label, Knows
<1>2. /\ \A q \in Request \ {r} : Same(q)
      /\ pc'[r] = "verify.user"
  BY DEF Inv, TypeOK, Same
<1>3. Knows(r)'
  BY <1>2 DEF Inv, Knows, UserLabel
<1>4. QED
  BY <1>1, <1>2, <1>3, QuietStep DEF UserLabel

\* A registration adds the EMAIL provider to the user it created.
LEMMA RegisterProviderStep ==
    ASSUME Inv, NEW r \in Request, RegisterProvider(r)
    PROVE  Inv'
<1> USE DEF RegisterProvider, Goto, rowVars, linkVars, localVars, historyVars, At
<1>0. Knows(r)
  BY DEF Inv
<1>1. TypeOK'
  BY <1>0 DEF Inv, TypeOK, Label, Knows, UserLabel
<1>2. /\ \A q \in Request \ {r} : Same(q)
      /\ pc'[r] = "register.token"
  BY DEF Inv, TypeOK, Same
<1>3. Knows(r)'
  BY <1>0, <1>2 DEF Knows, UserLabel
<1>4. QED
  BY <1>1, <1>2, <1>3, QuietStep DEF UserLabel

\* A sign-in finds the row of the address that its token brings.
LEMMA SignInStep ==
    ASSUME Inv, NEW r \in Request, NEW i \in Identity, NEW e \in Email, SignIn(r, i, e)
    PROVE  Inv'
<1> USE DEF SignIn, findUserByEmail, rowVars, linkVars, localVars, At
<1>1. TypeOK'
  BY DEF Inv, TypeOK, Label
<1>2. /\ \A q \in Request \ {r} : Same(q)
      /\ named \subseteq named'
      /\ pc'[r] \in {"social.create", "social.find"}
      /\ e \in named'
      /\ adr'[r] = e
      /\ idn'[r] = i
      /\ <<i, e>> \in Claims
      /\ pc'[r] = "social.find" => usr'[r] \in User /\ email[usr'[r]] = e
  BY DEF Inv, TypeOK, Same
<1>3. Knows(r)'
  BY <1>2 DEF Knows, UserLabel
<1>4. QED
  BY <1>1, <1>2, <1>3, QuietStep DEF UserLabel

\* A sign-in goes on without a new provider row only if there is one.
LEMMA SocialFindStep ==
    ASSUME Inv, NEW r \in Request, SocialFind(r)
    PROVE  Inv'
<1> USE DEF SocialFind, Goto, Linked, rowVars, linkVars, localVars, historyVars, At
<1>0. Knows(r)
  BY DEF Inv
<1>1. TypeOK'
  BY <1>0 DEF Inv, TypeOK, Label, Knows, UserLabel
<1>2. /\ \A q \in Request \ {r} : Same(q)
      /\ pc'[r] \in {"social.link", "social.verify", "social.session"}
      /\ findAuthProvider(usr[r], idn[r]) = {} => pc'[r] = "social.link"
  BY DEF Inv, TypeOK, Same
<1>3. findAuthProvider(usr[r], idn[r])' = findAuthProvider(usr[r], idn[r])
  BY DEF findAuthProvider
<1>4. Knows(r)'
  BY <1>0, <1>2, <1>3 DEF Knows, UserLabel
<1>5. QED
  BY <1>1, <1>2, <1>4, QuietStep DEF UserLabel

\* A process dies: the rest of its handler never happens.
LEMMA AbortStep ==
    ASSUME Inv, NEW r \in Request, Abort(r)
    PROVE  Inv'
<1>1. TypeOK'
  BY DEF Inv, TypeOK, Label, Abort, Leave, rowVars, linkVars
<1>2. QED
  BY <1>1, LeaveStep DEF Abort, rowVars, linkVars

\* A verification link runs out.
LEMMA ExpireStep ==
    ASSUME Inv, NEW k \in Link, Expire(k)
    PROVE  Inv'
<1> USE DEF Expire, rowVars, localVars, historyVars
<1>1. TypeOK'
  BY DEF Inv, TypeOK
<1>2. /\ \A r \in Request : Knows(r)'
      /\ Mails'
      /\ Reasons'
      /\ Links'
  BY DEF Inv, Knows, Mails, Reasons, VerifiedForAReason, Links, AddressOf,
         findAuthProvider, At
<1>3. QED
  BY <1>1, <1>2 DEF Inv

\* A fresh row: nobody refers to it, and no other handler works on it.
LEMMA CreateStep ==
    ASSUME Inv, NEW r \in Request, NEW u \in User, TypeOK', Knows(r)',
           adr[r] \in Email, email[u] = None,
           email' = [email EXCEPT ![u] = adr[r]],
           verified' \in {verified, verified \cup {u}},
           verified' # verified => adr[r] \in named,
           UNCHANGED <<linked, linkVars, historyVars>>,
           pc'[r] \in {"register.provider", "social.find"},
           usr'[r] = u, adr'[r] = adr[r],
           \A q \in Request \ {r} : Same(q)
    PROVE  Inv'
<1> USE DEF linkVars, historyVars
<1>1. Grows
  BY DEF Inv, TypeOK, Grows
<1>2. \A q \in Request : Knows(q)'
  BY <1>1, OthersKnow DEF Inv
<1>3. Mails'
  <2>1. \A k \in Link :
          /\ linkUser'[k] # None => email'[linkUser'[k]] # None
          /\ inbox'[k] # None =>
                linkUser'[k] # None /\ email'[linkUser'[k]] \in {inbox'[k], Renamed}
    BY DEF Inv, TypeOK, Mails
  <2>2. \A p, q \in Request :
          (At(p, "register.mail") /\ At(q, "register.mail") /\ lnk[p] = lnk[q] => p = q)'
    BY DEF Inv, Mails, Same, At
  <2>3. QED
    BY <2>1, <2>2 DEF Mails
<1>4. Reasons'
  <2>1. \A k \in usedAt : linkUser[k] # u
    BY DEF Inv, TypeOK, Mails
  <2>2. QED
    BY <2>1 DEF Inv, TypeOK, Reasons, VerifiedForAReason
<1>5. ASSUME NEW q \in Request, pc[q] \in UserLabel PROVE usr[q] # u
  <2>1. Knows(q)
    BY DEF Inv
  <2>2. email[usr[q]] \in {adr[q], Renamed} /\ adr[q] \in Email
    BY <1>5, <2>1 DEF Knows
  <2>3. QED
    BY <2>2
<1>6. \A p \in linked \cup signedIn : p[1] # u
  BY DEF Inv, Links
<1>7. Links'
  <2>1. \A p \in linked \cup signedIn : email'[p[1]] # None
    BY <1>6 DEF Inv, TypeOK, Links
  <2>2. AddressOf(u, adr[r])'
    BY <1>5, <1>6 DEF Inv, TypeOK, AddressOf, Same
  <2>3. ASSUME NEW v \in User \ {u}, NEW e \in Email, AddressOf(v, e)
        PROVE  AddressOf(v, e)'
    BY <2>3 DEF Inv, TypeOK, AddressOf, Same
  <2>4. \A v \in User : email'[v] # None => \E e \in Email : AddressOf(v, e)'
    BY <2>2, <2>3 DEF Inv, TypeOK, Links
  <2>5. \A p \in signedIn : findAuthProvider(p[1], p[2])' # {}
    BY DEF Inv, Links, findAuthProvider
  <2>6. QED
    BY <2>1, <2>4, <2>5 DEF Links
<1>8. QED
  BY <1>2, <1>3, <1>4, <1>7 DEF Inv

\* A registration inserts the user, or the unique index on email throws.
LEMMA RegisterCreateStep ==
    ASSUME Inv, NEW r \in Request, NEW u \in User, RegisterCreate(r, u)
    PROVE  Inv'
<1> USE DEF RegisterCreate, linkVars, historyVars, At
<1>0. adr[r] \in Email
  BY DEF Inv, Knows
<1>1. CASE EmailTaken(adr[r])
  <2>1. TypeOK'
    BY <1>1 DEF Inv, TypeOK, Label, Leave, rowVars
  <2>2. QED
    BY <1>1, <2>1, LeaveStep
<1>2. CASE ~EmailTaken(adr[r])
  <2>1. TypeOK'
    BY <1>0, <1>2 DEF Inv, TypeOK, Label, createUser
  <2>2. /\ \A q \in Request \ {r} : Same(q)
        /\ pc'[r] = "register.provider"
        /\ usr'[r] = u
        /\ adr'[r] = adr[r]
        /\ email'[u] = adr[r]
    BY <1>2 DEF Inv, TypeOK, Same, createUser
  <2>3. Knows(r)'
    BY <1>0, <2>2 DEF Knows, UserLabel
  <2>4. QED
    BY <1>0, <1>2, <2>1, <2>2, <2>3, CreateStep DEF createUser
<1>3. QED
  BY <1>1, <1>2

\* A sign-in inserts a user for a new address, or the unique index throws.
LEMMA SocialCreateStep ==
    ASSUME Inv, NEW r \in Request, NEW u \in User, SocialCreate(r, u)
    PROVE  Inv'
<1> USE DEF SocialCreate, linkVars, historyVars, At
<1>0. adr[r] \in Email /\ adr[r] \in named /\ <<idn[r], adr[r]>> \in Claims
  BY DEF Inv, Knows
<1>1. CASE EmailTaken(adr[r])
  <2>1. TypeOK'
    BY <1>1 DEF Inv, TypeOK, Label, Leave, rowVars
  <2>2. QED
    BY <1>1, <2>1, LeaveStep
<1>2. CASE ~EmailTaken(adr[r])
  <2>1. TypeOK'
    BY <1>0, <1>2 DEF Inv, TypeOK, Label, createUser
  <2>2. /\ \A q \in Request \ {r} : Same(q)
        /\ pc'[r] = "social.find"
        /\ usr'[r] = u
        /\ adr'[r] = adr[r]
        /\ idn'[r] = idn[r]
        /\ email'[u] = adr[r]
        /\ named' = named
    BY <1>2 DEF Inv, TypeOK, Same, createUser
  <2>3. Knows(r)'
    BY <1>0, <2>2 DEF Knows, UserLabel
  <2>4. QED
    BY <1>0, <1>2, <2>1, <2>2, <2>3, CreateStep DEF createUser
<1>3. QED
  BY <1>1, <1>2

-----------------------------------------------------------------------------
\* A registration inserts its verification link, which no mail carries yet.
LEMMA RegisterTokenStep ==
    ASSUME Inv, NEW r \in Request, NEW k \in Link, RegisterToken(r, k)
    PROVE  Inv'
<1> USE DEF RegisterToken, rowVars, historyVars, At
<1>0. /\ Knows(r)
      /\ linkUser[k] = None
      /\ inbox[k] = None
  BY DEF Inv, Mails
<1>1. TypeOK'
  BY <1>0 DEF Inv, TypeOK, Label, Knows, UserLabel
<1>2. /\ \A q \in Request \ {r} : Same(q)
      /\ pc'[r] = "register.mail"
      /\ lnk'[r] = k
      /\ linkUser'[k] = usr[r]
      /\ UNCHANGED <<usr, adr, email, inbox, linked, signedIn>>
  BY DEF Inv, TypeOK, Same
<1>3. Grows
  BY <1>0 DEF Inv, TypeOK, Grows
<1>4. Knows(r)'
  BY <1>0, <1>2 DEF Knows, UserLabel
<1>5. \A q \in Request : Knows(q)'
  BY <1>2, <1>3, <1>4, OthersKnow DEF Inv
<1>6. usr[r] \in User /\ email[usr[r]] # None
  BY <1>0 DEF Knows, UserLabel
<1>7. Mails'
  <2>1. \A j \in Link :
          /\ linkUser'[j] # None => email'[linkUser'[j]] # None
          /\ inbox'[j] # None =>
                linkUser'[j] # None /\ email'[linkUser'[j]] \in {inbox'[j], Renamed}
    BY <1>0, <1>2, <1>6 DEF Inv, TypeOK, Mails
  <2>2. \A q \in Request : At(q, "register.mail") => lnk[q] # k
    BY <1>0 DEF Inv, Knows, UserLabel
  <2>3. \A p, q \in Request :
          (At(p, "register.mail") /\ At(q, "register.mail") /\ lnk[p] = lnk[q] => p = q)'
    BY <1>2, <2>2 DEF Inv, Mails, Same
  <2>4. QED
    BY <2>1, <2>3 DEF Mails
<1>8. Reasons'
  BY <1>0, <1>2 DEF Inv, TypeOK, Mails, Reasons, VerifiedForAReason
<1>9. Links'
  BY <1>1, <1>2, <1>3, <1>5, LinksStay DEF Same, UserLabel
<1>10. QED
  BY <1>1, <1>5, <1>7, <1>8, <1>9 DEF Inv

\* A registration mails its link to the address it registered, or the mail
\* fails.
LEMMA RegisterMailStep ==
    ASSUME Inv, NEW r \in Request, RegisterMail(r)
    PROVE  Inv'
<1> USE DEF RegisterMail, rowVars, historyVars, At
<1>0. /\ Knows(r)
      /\ usr[r] \in User /\ adr[r] \in Email
      /\ lnk[r] \in Link /\ linkUser[lnk[r]] = usr[r] /\ inbox[lnk[r]] = None
      /\ email[usr[r]] \in {adr[r], Renamed}
  BY DEF Inv, Knows, UserLabel
<1>1. TypeOK'
  BY <1>0 DEF Inv, TypeOK, Label, Leave
<1>2. /\ \A q \in Request \ {r} : Same(q)
      /\ pc'[r] = "idle"
      /\ inbox' = [inbox EXCEPT ![lnk[r]] = adr[r]]
      /\ UNCHANGED <<email, verified, linked, linkUser, usedAt, named, signedIn>>
  BY DEF Inv, TypeOK, Same, Leave
<1>3. Grows
  BY <1>0, <1>2 DEF Inv, TypeOK, Grows
<1>4. \A q \in Request \ {r} : pc[q] = "register.mail" => inbox'[lnk[q]] = inbox[lnk[q]]
  <2>1. \A q \in Request \ {r} : pc[q] = "register.mail" => lnk[q] \in Link /\ lnk[q] # lnk[r]
    BY DEF Inv, Mails, Knows, UserLabel
  <2>2. QED
    BY <1>2, <2>1 DEF Inv, TypeOK
<1>5. \A q \in Request : Knows(q)'
  <2>1. Knows(r)'
    BY <1>2 DEF Knows, UserLabel
  <2>2. \A q \in Request \ {r} : Knows(q)'
    BY <1>2, <1>3, <1>4, OthersKnow DEF Inv
  <2>3. QED
    BY <2>1, <2>2
<1>6. Mails'
  <2>1. \A j \in Link :
          /\ linkUser'[j] # None => email'[linkUser'[j]] # None
          /\ inbox'[j] # None =>
                linkUser'[j] # None /\ email'[linkUser'[j]] \in {inbox'[j], Renamed}
    BY <1>0, <1>2 DEF Inv, TypeOK, Mails
  <2>2. \A p, q \in Request :
          (At(p, "register.mail") /\ At(q, "register.mail") /\ lnk[p] = lnk[q] => p = q)'
    BY <1>2 DEF Inv, Mails, Same
  <2>3. QED
    BY <2>1, <2>2 DEF Mails
<1>7. Reasons'
  BY <1>0, <1>2 DEF Inv, TypeOK, Mails, Reasons, VerifiedForAReason
<1>8. Links'
  BY <1>1, <1>2, <1>3, <1>5, LinksStay DEF Same, UserLabel
<1>9. QED
  BY <1>1, <1>5, <1>6, <1>7, <1>8 DEF Inv

-----------------------------------------------------------------------------
\* A verification marks the user of its link, which has been used by then.
LEMMA VerifyUserStep ==
    ASSUME Inv, NEW r \in Request, VerifyUser(r)
    PROVE  Inv'
<1> USE DEF VerifyUser, markEmailVerified, linkVars, historyVars, At
<1>0. /\ lnk[r] \in Link /\ inbox[lnk[r]] # None /\ lnk[r] \in usedAt
      /\ linkUser[lnk[r]] \in User
      /\ email[linkUser[lnk[r]]] \in {inbox[lnk[r]], Renamed}
  <2>1. lnk[r] \in Link /\ inbox[lnk[r]] # None /\ lnk[r] \in usedAt
    BY DEF Inv, Knows
  <2>2. QED
    BY <2>1 DEF Inv, TypeOK, Mails
<1>1. TypeOK'
  BY <1>0 DEF Inv, TypeOK, Label, Leave
<1>2. /\ \A q \in Request \ {r} : Same(q)
      /\ pc'[r] = "idle"
  BY DEF Inv, TypeOK, Same, Leave
<1>3. Grows
  BY DEF Grows
<1>4. \A q \in Request : Knows(q)'
  <2>1. Knows(r)'
    BY <1>2 DEF Knows, UserLabel
  <2>2. \A q \in Request \ {r} : Knows(q)'
    BY <1>2, <1>3, OthersKnow DEF Inv
  <2>3. QED
    BY <2>1, <2>2
<1>5. Mails'
  BY <1>2 DEF Inv, Mails, Same
<1>6. Reasons'
  BY <1>0 DEF Inv, TypeOK, Reasons, VerifiedForAReason
<1>7. Links'
  BY <1>1, <1>2, <1>3, <1>4, LinksStay DEF Same, UserLabel
<1>8. QED
  BY <1>1, <1>4, <1>5, <1>6, <1>7 DEF Inv

\* A sign-in marks the user whose address its token brought.
LEMMA SocialVerifyStep ==
    ASSUME Inv, NEW r \in Request, SocialVerify(r)
    PROVE  Inv'
<1> USE DEF SocialVerify, Goto, markEmailVerified, localVars, linkVars, historyVars, At
<1>0. /\ Knows(r)
      /\ usr[r] \in User /\ adr[r] \in Email /\ adr[r] \in named
      /\ email[usr[r]] \in {adr[r], Renamed}
  BY DEF Inv, Knows, UserLabel
<1>1. TypeOK'
  BY <1>0 DEF Inv, TypeOK, Label
<1>2. /\ \A q \in Request \ {r} : Same(q)
      /\ pc'[r] = "social.session"
      /\ findAuthProvider(usr[r], idn[r])' = findAuthProvider(usr[r], idn[r])
  BY DEF Inv, TypeOK, Same, findAuthProvider
<1>3. Grows
  BY DEF Grows
<1>4. \A q \in Request : Knows(q)'
  <2>1. Knows(r)'
    BY <1>0, <1>2 DEF Knows, UserLabel
  <2>2. \A q \in Request \ {r} : Knows(q)'
    BY <1>2, <1>3, OthersKnow DEF Inv
  <2>3. QED
    BY <2>1, <2>2
<1>5. Mails'
  BY <1>2 DEF Inv, Mails, Same
<1>6. Reasons'
  BY <1>0 DEF Inv, TypeOK, Reasons, VerifiedForAReason
<1>7. Links'
  BY <1>1, <1>2, <1>3, <1>4, LinksStay DEF Same, UserLabel
<1>8. QED
  BY <1>1, <1>4, <1>5, <1>6, <1>7 DEF Inv

\* A sign-in opens a session for an account that has a row of its provider.
LEMMA SocialSessionStep ==
    ASSUME Inv, NEW r \in Request, SocialSession(r)
    PROVE  Inv'
<1> USE DEF SocialSession, rowVars, linkVars, At
<1>0. /\ findAuthProvider(usr[r], idn[r]) # {}
      /\ usr[r] \in User
      /\ <<idn[r], adr[r]>> \in Claims
  BY DEF Inv, Knows, UserLabel
<1>1. TypeOK'
  BY <1>0, ClaimsAssumption DEF Inv, TypeOK, Label, Leave
<1>2. /\ \A q \in Request \ {r} : Same(q)
      /\ pc'[r] = "idle"
  BY DEF Inv, TypeOK, Same, Leave
<1>3. Grows
  BY DEF Grows
<1>4. \A q \in Request : Knows(q)'
  <2>1. Knows(r)'
    BY <1>2 DEF Knows, UserLabel
  <2>2. \A q \in Request \ {r} : Knows(q)'
    BY <1>2, <1>3, OthersKnow DEF Inv
  <2>3. QED
    BY <2>1, <2>2
<1>5. Mails'
  BY <1>2 DEF Inv, Mails, Same
<1>6. Reasons'
  BY DEF Inv, Reasons, VerifiedForAReason
<1>7. Links'
  <2>1. \A p \in signedIn' : p \in signedIn \/ findAuthProvider(p[1], p[2])' # {}
    <3>1. \A u \in User, i \in Identity : findAuthProvider(u, i)' = findAuthProvider(u, i)
      BY DEF findAuthProvider
    <3>2. ASSUME NEW p \in signedIn', p \notin signedIn
          PROVE  findAuthProvider(p[1], p[2])' # {}
      <4>1. p = <<usr[r], idn[r]>>
        BY <3>2
      <4>2. p[1] = usr[r] /\ p[2] = idn[r] /\ idn[r] \in Identity
        BY <1>0, <4>1, ClaimsAssumption
      <4>3. QED
        BY <1>0, <3>1, <4>2
    <3>3. QED
      BY <3>2
  <2>2. QED
    BY <1>1, <1>2, <1>3, <1>4, <2>1, LinksStay DEF Same, UserLabel
<1>8. QED
  BY <1>1, <1>4, <1>5, <1>6, <1>7 DEF Inv

\* A provider row is added to the account that has the address.
LEMMA SocialLinkStep ==
    ASSUME Inv, NEW r \in Request, SocialLink(r)
    PROVE  Inv'
<1> USE DEF SocialLink, linkVars, historyVars, At
<1>0. /\ Knows(r)
      /\ pc[r] \in UserLabel
      /\ usr[r] \in User /\ adr[r] \in Email /\ <<idn[r], adr[r]>> \in Claims
      /\ email[usr[r]] \in {adr[r], Renamed}
  BY DEF Inv, Knows, UserLabel
<1>1. idn[r] \in Identity
  BY <1>0, ClaimsAssumption
<1>2. CASE ProviderTaken(usr[r], idn[r])
  <2>1. TypeOK'
    BY <1>2 DEF Inv, TypeOK, Label, Leave
  <2>2. QED
    BY <1>2, <2>1, LeaveStep DEF rowVars
<1>3. CASE ~ProviderTaken(usr[r], idn[r])
  <2>1. /\ linked' = linked \cup {<<usr[r], idn[r]>>}
        /\ \A q \in Request \ {r} : Same(q)
        /\ pc'[r] \in {"social.verify", "social.session"}
        /\ UNCHANGED <<usr, adr, idn, lnk, email, verified, signedIn>>
        /\ UNCHANGED <<named, usedAt, linkUser, inbox>>
    BY <1>3 DEF Inv, TypeOK, Same, Goto, Linked, localVars
  <2>2. TypeOK'
    BY <1>0, <1>1, <1>3 DEF Inv, TypeOK, Label, Goto, Linked, localVars
  <2>3. Grows
    BY <2>1 DEF Grows
  <2>4. \A q \in Request : Knows(q)'
    <3>1. findAuthProvider(usr[r], idn[r])' # {}
      <4>1. <<usr[r], idn[r]>> \in linked' /\ SameProvider(idn[r], idn[r])
        BY <1>1, <2>1 DEF SameProvider, Identity
      <4>2. QED
        BY <1>1, <2>1, <4>1 DEF findAuthProvider
    <3>2. Knows(r)'
      BY <1>0, <2>1, <3>1 DEF Knows, UserLabel
    <3>3. \A q \in Request \ {r} : Knows(q)'
      BY <2>1, <2>3, OthersKnow DEF Inv
    <3>4. QED
      BY <3>2, <3>3
  <2>5. Mails'
    BY <2>1 DEF Inv, Mails, Same
  <2>6. Reasons'
    BY <2>1 DEF Inv, Reasons, VerifiedForAReason
  <2>7. \A q \in Request : pc'[q] \in UserLabel => pc[q] \in UserLabel
    BY <1>0, <2>1 DEF Same
  <2>8. Links'
    BY <2>1, <2>2, <2>3, <2>4, <2>7, LinksStay
  <2>9. QED
    BY <2>2, <2>4, <2>5, <2>6, <2>8 DEF Inv
<1>4. QED
  BY <1>2, <1>3

\* An account is deleted: its address is renamed, its provider rows stay.
LEMMA SoftDeleteStep ==
    ASSUME Inv, NEW u \in User, SoftDelete(u)
    PROVE  Inv'
<1> USE DEF SoftDelete, linkVars, localVars, historyVars, At
<1>0. email[u] # None
  BY DEF Inv, Reasons
<1>1. TypeOK'
  BY DEF Inv, TypeOK
<1>2. Grows
  BY DEF Inv, TypeOK, Grows
<1>3. \A q \in Request : Knows(q)'
  BY <1>2, OthersKnow DEF Inv, Same
<1>4. Mails'
  BY DEF Inv, TypeOK, Mails
<1>5. Reasons'
  BY DEF Inv, TypeOK, Reasons, VerifiedForAReason
<1>6. Links'
  <2>1. \A v \in User : email[v] = None => email'[v] = None
    BY <1>0 DEF Inv, TypeOK
  <2>2. QED
    BY <1>1, <1>2, <1>3, <2>1, LinksStay
<1>7. QED
  BY <1>1, <1>3, <1>4, <1>5, <1>6 DEF Inv

\* Every step keeps the invariant.
LEMMA InvStep == Inv /\ [Next]_vars => Inv'
<1> SUFFICES ASSUME Inv, [Next]_vars PROVE Inv'
  OBVIOUS
<1>1. CASE UNCHANGED vars
  <2>1. TypeOK' /\ Mails' /\ Reasons'
    BY <1>1 DEF vars, Inv, TypeOK, Mails, Reasons, VerifiedForAReason, At
  <2>2. \A r \in Request : Knows(r)'
    BY <1>1 DEF vars, Inv, Knows, findAuthProvider
  <2>3. Links'
    BY <1>1 DEF vars, Inv, Links, AddressOf, findAuthProvider
  <2>4. QED
    BY <2>1, <2>2, <2>3 DEF Inv
<1>2. ASSUME NEW r \in Request, Arrive(r) PROVE Inv'
  BY <1>2, RegisterStep, VerifyEmailStep, SignInStep DEF Arrive
<1>3. ASSUME NEW r \in Request, Step(r) PROVE Inv'
  BY <1>3, RegisterCreateStep, RegisterProviderStep, RegisterTokenStep,
     RegisterMailStep, VerifyMarkStep, VerifyUserStep, SocialCreateStep,
     SocialFindStep, SocialLinkStep, SocialVerifyStep, SocialSessionStep DEF Step
<1>4. QED
  BY <1>1, <1>2, <1>3, AbortStep, SoftDeleteStep, ExpireStep DEF Next

\* The invariant of rows, links and handlers holds in every reachable state.
LEMMA Invariant == Spec => []Inv
BY InitInv, InvStep, PTL DEF Spec

\* Rows, links and what handlers remember have their types in every
\* reachable state: an id that a handler writes is that of an existing row.
THEOREM TypeCorrect == Spec => []TypeOK
BY Invariant, PTL DEF Inv

\* The unique index on users(email) and the queries between it and
\* markEmailVerified: a row says isEmailVerified only if a link mailed to its
\* present address was followed for it, or a token brought that address.
THEOREM VerifiedRowsHaveAReason == Spec => []VerifiedForAReason
<1>1. Inv => VerifiedForAReason
  BY DEF Inv, Reasons
<1>2. QED
  BY <1>1, Invariant, PTL

\* The account of a sign-in is found by address and its provider row by
\* provider (findAuthProvider): whoever was ever linked or signed in to it
\* brought its one address, and found a row of his provider there.
THEOREM AccountsBelongToAnAddress == Spec => []AccountsHaveOneAddress
<1>1. Inv => AccountsHaveOneAddress
  <2> SUFFICES ASSUME Inv, NEW u \in User, NEW j \in HoldersOf(u)
               PROVE  \E e \in Email :
                        /\ email[u] \in {e, Renamed}
                        /\ \A i \in HoldersOf(u) :
                              <<i, e>> \in Claims /\ findAuthProvider(u, i) # {}
    BY DEF AccountsHaveOneAddress
  <2>1. <<u, j>> \in linked \cup signedIn
    BY DEF HoldersOf
  <2>2. email[u] # None
    BY <2>1 DEF Inv, Links
  <2>3. PICK e \in Email : AddressOf(u, e)
    BY <2>2 DEF Inv, Links
  <2>4. ASSUME NEW i \in HoldersOf(u)
        PROVE  <<i, e>> \in Claims /\ findAuthProvider(u, i) # {}
    <3>1. i \in Identity /\ <<u, i>> \in linked \cup signedIn
      BY DEF HoldersOf
    <3>2. <<i, e>> \in Claims
      BY <2>3, <3>1 DEF AddressOf
    <3>3. CASE <<u, i>> \in linked
      BY <3>1, <3>2, <3>3 DEF findAuthProvider, SameProvider, Identity
    <3>4. CASE <<u, i>> \in signedIn
      BY <3>2, <3>4 DEF Inv, Links
    <3>5. QED
      BY <3>1, <3>2, <3>3, <3>4
  <2>5. QED
    BY <2>3, <2>4 DEF AddressOf
<1>2. QED
  BY <1>1, Invariant, PTL

-----------------------------------------------------------------------------
\* The ways in, and the causes to have none, that outlive a handler: see
\* NobodyLockedOut.
HasWay(u) ==
    \/ u \in password /\ u \in verified
    \/ u \in password /\ \E k \in Link \ usedAt : linkUser[k] = u /\ inbox[k] # None
    \/ \E i \in Identity : <<u, i>> \in linked
    \/ LinkedElsewhere(u)
    \/ u \in dropped

Covered(u) == HasWay(u) \/ \E r \in Request : WorksFor(r, u)

\* The unique index on users(email).
EmailsUnique == \A u, v \in User : email[u] \in Email /\ email[u] = email[v] => u = v

\* What NobodyLockedOut and SpentLinkVerifies need of rows and handlers.
Ways ==
    /\ EmailsUnique
    /\ \A r \in Request :
          pc[r] \in {"register.token", "register.mail"} => usr[r] \in password
    /\ \A k \in Link : linkUser[k] # None => linkUser[k] \in password
    /\ \A k \in usedAt : inbox[k] # None
    /\ \A u \in User : email[u] \in Email => Covered(u)
    /\ SpentLinkVerifies

\* What every query of handler r does, whatever it is.
Works(r) ==
    /\ Grows
    /\ password \subseteq password'
    /\ verified \subseteq verified'
    /\ dropped' = dropped
    /\ \A k \in usedAt' \ usedAt : pc'[r] = "verify.user" /\ lnk'[r] = k
    /\ \A q \in Request \ {r} : Same(q)

\* The first query of a handler only adds rows.
LEMMA ArriveWorks ==
    ASSUME Inv, NEW r \in Request, Arrive(r)
    PROVE  Works(r)
<1> USE DEF Inv, TypeOK, Works, Grows, Same, rowVars, linkVars, localVars
<1>1. ASSUME NEW e \in Email, Register(r, e) PROVE Works(r)
  BY <1>1 DEF Register
<1>2. ASSUME NEW k \in Link, VerifyEmail(r, k) PROVE Works(r)
  BY <1>2 DEF VerifyEmail
<1>3. ASSUME NEW i \in Identity, NEW e \in Email, SignIn(r, i, e) PROVE Works(r)
  BY <1>3 DEF SignIn, findUserByEmail
<1>4. QED
  BY <1>1, <1>2, <1>3 DEF Arrive

\* So does each later one: none takes away a row, a password or a mark.
LEMMA StepWorks ==
    ASSUME Inv, NEW r \in Request, Step(r)
    PROVE  Works(r)
<1> USE DEF Works, Grows, Same, rowVars, linkVars, localVars, historyVars, Leave, Goto
<1>0. TypeOK /\ Knows(r) /\ Mails
  BY DEF Inv
<1>1. ASSUME NEW u \in User, RegisterCreate(r, u) PROVE Works(r)
  BY <1>0, <1>1 DEF TypeOK, RegisterCreate, createUser
<1>2. CASE RegisterProvider(r)
  BY <1>0, <1>2 DEF TypeOK, RegisterProvider
<1>3. ASSUME NEW k \in Link, RegisterToken(r, k) PROVE Works(r)
  BY <1>0, <1>3 DEF TypeOK, RegisterToken
<1>4. CASE RegisterMail(r)
  BY <1>0, <1>4 DEF TypeOK, RegisterMail, Knows, At
<1>5. CASE VerifyMark(r) \/ VerifyUser(r)
  BY <1>0, <1>5 DEF TypeOK, VerifyMark, VerifyUser, markEmailVerified
<1>6. ASSUME NEW u \in User, SocialCreate(r, u) PROVE Works(r)
  BY <1>0, <1>6 DEF TypeOK, SocialCreate, createUser
<1>7. CASE SocialFind(r)
  BY <1>0, <1>7 DEF TypeOK, SocialFind
<1>8. CASE SocialLink(r)
  BY <1>0, <1>8 DEF TypeOK, SocialLink
<1>9. CASE SocialVerify(r) \/ SocialSession(r)
  BY <1>0, <1>9 DEF TypeOK, SocialVerify, SocialSession, markEmailVerified
<1>10. QED
  BY <1>1, <1>2, <1>3, <1>4, <1>5, <1>6, <1>7, <1>8, <1>9 DEF Step

\* A way in stays as long as the account is in use, or a link is spent and
\* its handler goes on to the user.
LEMMA WaysStay ==
    ASSUME Inv, Grows, password \subseteq password', verified \subseteq verified',
           dropped \subseteq dropped',
           \A k \in usedAt' \ usedAt :
               \E r \in Request : pc'[r] = "verify.user" /\ lnk'[r] = k,
           NEW u \in User, email[u] \in Email, email'[u] = email[u], HasWay(u)
    PROVE  Covered(u)'
<1>1. CASE u \in password /\ u \in verified
  BY <1>1 DEF HasWay, Covered
<1>2. ASSUME u \in password, NEW k \in Link \ usedAt, linkUser[k] = u, inbox[k] # None
      PROVE  Covered(u)'
  <2>1. linkUser'[k] = u /\ inbox'[k] # None
    BY <1>2 DEF Grows
  <2>2. CASE k \in usedAt'
    <3>1. PICK r \in Request : pc'[r] = "verify.user" /\ lnk'[r] = k
      BY <1>2, <2>2
    <3>2. WorksFor(r, u)'
      BY <2>1, <3>1 DEF WorksFor, At
    <3>3. QED
      BY <3>2 DEF Covered
  <2>3. CASE k \notin usedAt'
    BY <1>2, <2>1, <2>3 DEF HasWay, Covered
  <2>4. QED
    BY <2>2, <2>3
<1>3. CASE \E i \in Identity : <<u, i>> \in linked
  BY <1>3 DEF HasWay, Covered, Grows
<1>4. CASE LinkedElsewhere(u)
  <2>1. PICK i \in Identity, v \in User :
            <<i, email[u]>> \in Claims /\ <<v, i>> \in linked /\ email[v] # email[u]
    BY <1>4 DEF LinkedElsewhere
  <2>2. email[v] # None
    BY <2>1 DEF Inv, Links
  <2>3. email'[v] # email[u] /\ <<v, i>> \in linked'
    BY <2>1, <2>2 DEF Grows
  <2>4. LinkedElsewhere(u)'
    BY <2>1, <2>3 DEF LinkedElsewhere
  <2>5. QED
    BY <2>4 DEF HasWay, Covered
<1>5. CASE u \in dropped
  BY <1>5 DEF HasWay, Covered
<1>6. QED
  BY <1>1, <1>2, <1>3, <1>4, <1>5 DEF HasWay

\* Whatever others do, a handler goes on to work for its account.
LEMMA OthersWork ==
    ASSUME Inv, Grows, NEW q \in Request, Same(q), NEW u \in User, WorksFor(q, u)
    PROVE  WorksFor(q, u)'
<1>1. pc[q] = "verify.user" => linkUser'[lnk[q]] = linkUser[lnk[q]]
  BY DEF Inv, Knows, Mails, Grows
<1>2. QED
  BY <1>1 DEF WorksFor, Same, At

\* A handler keeps the account it works for, or leaves a way in behind.
Passes(r) ==
    \A u \in User :
        /\ email'[u] # email[u] => WorksFor(r, u)'
        /\ email[u] \in Email /\ WorksFor(r, u) => Covered(u)'

\* If a handler keeps its account or leaves a way in behind, and the others
\* stay as they are, nobody is locked out.
LEMMA NobodyLeftOut ==
    ASSUME Inv, Ways, NEW r \in Request, Works(r), Passes(r)
    PROVE  \A u \in User : email'[u] \in Email => Covered(u)'
<1> SUFFICES ASSUME NEW u \in User, email'[u] \in Email
             PROVE  Covered(u)'
  OBVIOUS
<1>1. CASE email'[u] # email[u]
  BY <1>1 DEF Passes, Covered
<1>2. CASE email'[u] = email[u] /\ HasWay(u)
  BY <1>2, WaysStay DEF Works
<1>3. ASSUME email'[u] = email[u], NEW q \in Request, WorksFor(q, u)
      PROVE  Covered(u)'
  <2>1. CASE q # r
    BY <1>3, <2>1, OthersWork DEF Works, Covered
  <2>2. CASE q = r
    BY <1>3, <2>2 DEF Passes
  <2>3. QED
    BY <2>1, <2>2
<1>4. QED
  BY <1>1, <1>2, <1>3 DEF Ways, Covered

\* A handler that arrives has no account of its own to keep.
LEMMA ArrivePasses ==
    ASSUME Inv, NEW r \in Request, Arrive(r)
    PROVE  Passes(r)
<1>1. pc[r] = "idle" /\ email' = email
  BY DEF Arrive, Register, VerifyEmail, SignIn, At, rowVars
<1>2. QED
  BY <1>1 DEF Passes, WorksFor, At

\* Whoever loses the race for the index on providers leaves the account with
\* the provider row that won, or with one elsewhere.
LEMMA LinkPasses ==
    ASSUME Inv, Ways, NEW r \in Request, SocialLink(r)
    PROVE  Passes(r)
<1> USE DEF SocialLink, At
<1>0. /\ Knows(r)
      /\ usr[r] \in User /\ adr[r] \in Email /\ <<idn[r], adr[r]>> \in Claims
      /\ email[usr[r]] \in {adr[r], Renamed}
      /\ email' = email
      /\ \A u \in User : WorksFor(r, u) => u = usr[r]
  BY DEF Inv, Knows, UserLabel, WorksFor
<1>1. idn[r] \in Identity
  BY <1>0, ClaimsAssumption
<1>2. Works(r)
  BY StepWorks DEF Step
<1>3. CASE ~ProviderTaken(usr[r], idn[r])
  <2>1. <<usr[r], idn[r]>> \in linked'
    BY <1>3
  <2>2. ASSUME NEW u \in User, u = usr[r] PROVE Covered(u)'
    BY <1>1, <2>1, <2>2 DEF Covered, HasWay
  <2>3. QED
    BY <1>0, <2>2 DEF Passes
<1>4. ASSUME ProviderTaken(usr[r], idn[r]), email[usr[r]] \in Email
      PROVE  HasWay(usr[r])
  <2>1. ASSUME NEW j \in findAuthProvider(usr[r], idn[r])
        PROVE  HasWay(usr[r])
    BY <2>1 DEF findAuthProvider, HasWay
  <2>2. ASSUME NEW v \in User, <<v, idn[r]>> \in linked, v # usr[r]
        PROVE  HasWay(usr[r])
    <3>1. email[v] # email[usr[r]]
      BY <1>0, <1>4, <2>2 DEF Ways, EmailsUnique
    <3>2. LinkedElsewhere(usr[r])
      BY <1>0, <1>1, <1>4, <2>2, <3>1 DEF LinkedElsewhere
    <3>3. QED
      BY <3>2 DEF HasWay
  <2>3. CASE <<usr[r], idn[r]>> \in linked
    BY <1>1, <2>3 DEF HasWay
  <2>4. QED
    BY <1>4, <2>1, <2>2, <2>3 DEF ProviderTaken
<1>5. CASE ProviderTaken(usr[r], idn[r])
  <2>1. ASSUME NEW u \in User, u = usr[r], email[u] \in Email
        PROVE  Covered(u)'
    <3>1. HasWay(u) /\ email'[u] = email[u]
      BY <1>0, <1>4, <1>5, <2>1
    <3>2. QED
      BY <1>2, <2>1, <3>1, WaysStay DEF Works
  <2>2. QED
    BY <1>0, <2>1 DEF Passes
<1>6. QED
  BY <1>3, <1>5

\* A registration leaves behind a link that verify-email will accept.
LEMMA MailPasses ==
    ASSUME Inv, Ways, NEW r \in Request, RegisterMail(r)
    PROVE  Passes(r)
<1> USE DEF RegisterMail, At
<1>0. /\ usr[r] \in User /\ adr[r] \in Email /\ usr[r] \in password
      /\ lnk[r] \in Link /\ linkUser[lnk[r]] = usr[r] /\ inbox[lnk[r]] = None
      /\ \A u \in User : WorksFor(r, u) => u = usr[r]
  BY DEF Inv, Knows, UserLabel, Ways, WorksFor
<1>1. lnk[r] \in Link \ usedAt
  BY <1>0 DEF Ways
<1>2. /\ inbox'[lnk[r]] # None
      /\ UNCHANGED <<email, password, linkUser, usedAt>>
  BY <1>0, UnsetAssumption DEF Inv, TypeOK, rowVars
<1>3. ASSUME NEW u \in User, u = usr[r] PROVE HasWay(u)'
  BY <1>0, <1>1, <1>2, <1>3 DEF HasWay
<1>4. QED
  BY <1>0, <1>2, <1>3 DEF Passes, Covered

\* Whatever it does next, it keeps its account or leaves a way in behind.
LEMMA StepPasses ==
    ASSUME Inv, Ways, NEW r \in Request, Step(r)
    PROVE  Passes(r)
<1> USE DEF At, Goto, Leave, rowVars, localVars
<1>0. TypeOK /\ Knows(r)
  BY DEF Inv
<1>1. ASSUME NEW u \in User, RegisterCreate(r, u) \/ SocialCreate(r, u) PROVE Passes(r)
  <2>1. \A v \in User : ~WorksFor(r, v)
    BY <1>1 DEF RegisterCreate, SocialCreate, WorksFor
  <2>2. \A v \in User : email'[v] # email[v] => WorksFor(r, v)'
    BY <1>0, <1>1 DEF TypeOK, RegisterCreate, SocialCreate, createUser, WorksFor
  <2>3. QED
    BY <2>1, <2>2 DEF Passes
<1>2. ASSUME RegisterProvider(r) \/ \E k \in Link : RegisterToken(r, k) PROVE Passes(r)
  BY <1>0, <1>2 DEF TypeOK, RegisterProvider, RegisterToken, Passes, Covered, WorksFor
<1>3. CASE RegisterMail(r)
  BY <1>3, MailPasses
<1>4. CASE VerifyMark(r)
  BY <1>4 DEF VerifyMark, Passes, WorksFor
<1>5. CASE VerifyUser(r)
  <2>1. lnk[r] \in Link /\ linkUser[lnk[r]] # None
    BY <1>5 DEF VerifyUser, Inv, Knows, Mails
  <2>2. /\ linkUser[lnk[r]] \in password' /\ linkUser[lnk[r]] \in verified'
        /\ email' = email
    BY <1>5, <2>1 DEF VerifyUser, markEmailVerified, Ways
  <2>3. \A u \in User : WorksFor(r, u) => u = linkUser[lnk[r]]
    BY <1>5 DEF VerifyUser, WorksFor
  <2>4. QED
    BY <2>2, <2>3 DEF Passes, Covered, HasWay
<1>6. CASE SocialFind(r)
  <2>1. /\ UNCHANGED <<email, linked, usr>>
        /\ pc'[r] = "social.link" \/ findAuthProvider(usr[r], idn[r]) # {}
        /\ \A u \in User : WorksFor(r, u) => u = usr[r]
    BY <1>0, <1>6 DEF TypeOK, SocialFind, WorksFor
  <2>2. CASE pc'[r] = "social.link"
    BY <2>1, <2>2 DEF Passes, Covered, WorksFor
  <2>3. CASE findAuthProvider(usr[r], idn[r]) # {}
    BY <2>1, <2>3 DEF Passes, Covered, HasWay, findAuthProvider
  <2>4. QED
    BY <2>1, <2>2, <2>3
<1>7. CASE SocialLink(r)
  BY <1>7, LinkPasses
<1>8. CASE SocialVerify(r) \/ SocialSession(r)
  BY <1>8 DEF SocialVerify, SocialSession, markEmailVerified, Passes, WorksFor
<1>9. QED
  BY <1>1, <1>2, <1>3, <1>4, <1>5, <1>6, <1>7, <1>8 DEF Step

-----------------------------------------------------------------------------
\* Whoever follows a link spends it before the user is marked.
LEMMA SpentStep ==
    ASSUME Inv, Ways, NEW r \in Request, Arrive(r) \/ Step(r), Works(r)
    PROVE  /\ \A k \in usedAt' : inbox'[k] # None
           /\ SpentLinkVerifies'
<1> USE DEF At
<1>0. TypeOK /\ Knows(r) /\ Mails
  BY DEF Inv
<1>1. usedAt' = usedAt \/ (VerifyMark(r) /\ usedAt' = usedAt \cup {lnk[r]})
  BY DEF Arrive, Register, VerifyEmail, SignIn, Step, RegisterCreate,
         RegisterProvider, RegisterToken, RegisterMail, VerifyMark, VerifyUser,
         SocialCreate, SocialFind, SocialLink, SocialVerify, SocialSession, linkVars
<1>2. VerifyMark(r) => lnk[r] \in Link /\ inbox[lnk[r]] # None
  BY <1>0 DEF VerifyMark, Knows
<1>3. pc[r] = "verify.user" => VerifyUser(r)
  BY DEF Arrive, Register, VerifyEmail, SignIn, Step, RegisterCreate,
         RegisterProvider, RegisterToken, RegisterMail, VerifyMark,
         SocialCreate, SocialFind, SocialLink, SocialVerify, SocialSession
<1>4. \A k \in Link : inbox[k] # None => inbox'[k] = inbox[k] /\ linkUser'[k] = linkUser[k]
  BY <1>0 DEF Works, Grows, Mails
<1>5. \A k \in usedAt' : inbox'[k] # None
  BY <1>0, <1>1, <1>2, <1>4 DEF Ways, TypeOK
<1>6. ASSUME NEW k \in usedAt
      PROVE  linkUser'[k] \in verified' \cup dropped' \/ \E q \in Request :
                pc'[q] = "verify.user" /\ lnk'[q] = k
  <2>1. k \in Link /\ linkUser'[k] = linkUser[k]
    BY <1>0, <1>4, <1>6 DEF Ways, TypeOK
  <2>2. CASE linkUser[k] \in verified \cup dropped
    BY <2>1, <2>2 DEF Works
  <2>3. ASSUME NEW q \in Request, pc[q] = "verify.user", lnk[q] = k
        PROVE  linkUser'[k] \in verified' \cup dropped' \/ \E p \in Request :
                  pc'[p] = "verify.user" /\ lnk'[p] = k
    <3>1. CASE q = r
      BY <1>3, <2>1, <2>3, <3>1 DEF VerifyUser, markEmailVerified
    <3>2. CASE q # r
      BY <2>3, <3>2 DEF Works, Same
    <3>3. QED
      BY <3>1, <3>2
  <2>4. QED
    BY <1>6, <2>2, <2>3 DEF Ways, SpentLinkVerifies
<1>7. SpentLinkVerifies'
  BY <1>6 DEF SpentLinkVerifies, Works
<1>8. QED
  BY <1>5, <1>7

\* Only the unique index lets a row in: no two rows have one address.
LEMMA EmailsUniqueStep ==
    ASSUME Inv, EmailsUnique, NEW r \in Request, Arrive(r) \/ Step(r)
    PROVE  EmailsUnique'
<1>0. TypeOK
  BY DEF Inv
<1>1. \/ email' = email
      \/ \E u \in User : RegisterCreate(r, u) /\ ~EmailTaken(adr[r])
      \/ \E u \in User : SocialCreate(r, u) /\ ~EmailTaken(adr[r])
  BY DEF Arrive, Register, VerifyEmail, SignIn, Step, RegisterCreate,
         RegisterProvider, RegisterToken, RegisterMail, VerifyMark, VerifyUser,
         SocialCreate, SocialFind, SocialLink, SocialVerify, SocialSession,
         markEmailVerified, rowVars
<1>2. ASSUME NEW u \in User, ~EmailTaken(adr[r]),
             RegisterCreate(r, u) \/ SocialCreate(r, u)
      PROVE  EmailsUnique'
  <2>1. email' = [email EXCEPT ![u] = adr[r]]
    BY <1>2 DEF RegisterCreate, SocialCreate, createUser
  <2>2. \A v \in User : email[v] # adr[r]
    BY <1>2 DEF EmailTaken, findUserByEmail
  <2>3. QED
    BY <1>0, <2>1, <2>2 DEF EmailsUnique, TypeOK
<1>3. QED
  BY <1>1, <1>2 DEF EmailsUnique

\* A registration has written the password before it writes or mails a link.
LEMMA PasswordsFirst ==
    ASSUME Inv, Ways, NEW r \in Request, Arrive(r) \/ Step(r), Works(r)
    PROVE  /\ \A q \in Request :
                 pc'[q] \in {"register.token", "register.mail"} => usr'[q] \in password'
           /\ \A k \in Link : linkUser'[k] # None => linkUser'[k] \in password'
<1> USE DEF At, Goto, Leave, rowVars, linkVars, localVars
<1>0. TypeOK
  BY DEF Inv
<1>1. pc'[r] \in {"register.token", "register.mail"} => usr'[r] \in password'
  <2>1. ASSUME Arrive(r) PROVE pc'[r] \notin {"register.token", "register.mail"}
    <3>1. ASSUME NEW e \in Email, Register(r, e)
          PROVE  pc'[r] \notin {"register.token", "register.mail"}
      BY <1>0, <3>1 DEF TypeOK, Register
    <3>2. ASSUME NEW k \in Link, VerifyEmail(r, k)
          PROVE  pc'[r] \notin {"register.token", "register.mail"}
      BY <1>0, <3>2 DEF TypeOK, VerifyEmail
    <3>3. ASSUME NEW i \in Identity, NEW e \in Email, SignIn(r, i, e)
          PROVE  pc'[r] \notin {"register.token", "register.mail"}
      BY <1>0, <3>3 DEF TypeOK, SignIn
    <3>4. QED
      BY <2>1, <3>1, <3>2, <3>3 DEF Arrive
  <2>2. ASSUME NEW u \in User, RegisterCreate(r, u) \/ SocialCreate(r, u)
        PROVE  pc'[r] \notin {"register.token", "register.mail"}
    BY <1>0, <2>2 DEF TypeOK, RegisterCreate, SocialCreate
  <2>3. ASSUME RegisterMail(r) \/ VerifyMark(r) \/ VerifyUser(r)
        PROVE  pc'[r] \notin {"register.token", "register.mail"}
    BY <1>0, <2>3 DEF TypeOK, RegisterMail, VerifyMark, VerifyUser
  <2>4. ASSUME SocialFind(r) \/ SocialLink(r) \/ SocialVerify(r) \/ SocialSession(r)
        PROVE  pc'[r] \notin {"register.token", "register.mail"}
    BY <1>0, <2>4 DEF TypeOK, SocialFind, SocialLink, SocialVerify, SocialSession, Linked
  <2>5. ASSUME RegisterProvider(r) \/ \E k \in Link : RegisterToken(r, k)
        PROVE  usr'[r] \in password'
    BY <2>5 DEF Ways, RegisterProvider, RegisterToken
  <2>6. QED
    BY <2>1, <2>2, <2>3, <2>4, <2>5 DEF Step
<1>2. \/ linkUser' = linkUser
      \/ \E k \in Link : RegisterToken(r, k)
  BY DEF Arrive, Register, VerifyEmail, SignIn, Step, RegisterCreate,
         RegisterProvider, RegisterMail, VerifyMark, VerifyUser, SocialCreate,
         SocialFind, SocialLink, SocialVerify, SocialSession
<1>3. \A k \in Link : linkUser'[k] # None => linkUser'[k] \in password'
  BY <1>0, <1>2 DEF TypeOK, Ways, RegisterToken, Works
<1>4. QED
  BY <1>1, <1>3 DEF Ways, Works, Same

\* Without rows nobody is locked out.
LEMMA InitWays == Init => Ways
BY DEF Init, Ways, EmailsUnique, SpentLinkVerifies

\* A crash drops the account its handler worked for, and no other.
LEMMA AbortWays ==
    ASSUME Inv, Ways, NEW r \in Request, Abort(r)
    PROVE  Ways'
<1> USE DEF Abort, rowVars, linkVars
<1>1. /\ \A q \in Request \ {r} : Same(q)
      /\ pc'[r] = "idle"
      /\ dropped \subseteq dropped'
      /\ \A u \in User : WorksFor(r, u) => u \in dropped'
  BY DEF Inv, TypeOK, Leave, Same
<1>2. Grows
  BY DEF Grows
<1>3. ASSUME NEW u \in User, email[u] \in Email PROVE Covered(u)'
  <2>1. CASE HasWay(u)
    BY <1>1, <1>2, <1>3, <2>1, WaysStay
  <2>2. ASSUME NEW q \in Request \ {r}, WorksFor(q, u) PROVE Covered(u)'
    BY <1>1, <1>2, <2>2, OthersWork DEF Covered
  <2>3. CASE WorksFor(r, u)
    BY <1>1, <2>3 DEF Covered, HasWay
  <2>4. QED
    BY <1>3, <2>1, <2>2, <2>3 DEF Ways, Covered
<1>4. SpentLinkVerifies'
  <2>1. ASSUME NEW k \in usedAt, At(r, "verify.user"), lnk[r] = k
        PROVE  linkUser[k] \in dropped'
    <3>1. lnk[r] \in Link /\ linkUser[lnk[r]] # None
      BY <2>1 DEF Inv, Knows, Mails, At
    <3>2. linkUser[k] \in User
      BY <2>1, <3>1 DEF Inv, TypeOK
    <3>3. QED
      BY <1>1, <2>1, <3>2 DEF WorksFor
  <2>2. QED
    BY <1>1, <2>1 DEF Ways, SpentLinkVerifies, Same, At
<1>5. QED
  BY <1>1, <1>3, <1>4 DEF Ways, EmailsUnique, Same

\* A deletion takes an account out of use and no way in from another.
LEMMA DeleteWays ==
    ASSUME Inv, Ways, NEW u \in User, SoftDelete(u)
    PROVE  Ways'
<1> USE DEF SoftDelete, linkVars, localVars, historyVars
<1>0. TypeOK
  BY DEF Inv
<1>1. Grows
  BY <1>0 DEF TypeOK, Grows
<1>2. \A v \in User : email'[v] \in Email => email'[v] = email[v]
  BY <1>0 DEF TypeOK
<1>3. EmailsUnique'
  BY <1>2 DEF Ways, EmailsUnique
<1>4. ASSUME NEW v \in User, email'[v] \in Email PROVE Covered(v)'
  <2>1. CASE HasWay(v)
    BY <1>1, <1>2, <1>4, <2>1, WaysStay
  <2>2. ASSUME NEW q \in Request, WorksFor(q, v) PROVE Covered(v)'
    BY <1>1, <2>2, OthersWork DEF Same, Covered
  <2>3. QED
    BY <1>2, <1>4, <2>1, <2>2 DEF Ways, Covered
<1>5. QED
  BY <1>3, <1>4 DEF Ways, SpentLinkVerifies, At

\* Every step keeps the ways in.
LEMMA WaysStep == Inv /\ Ways /\ [Next]_vars => Ways'
<1> SUFFICES ASSUME Inv, Ways, [Next]_vars PROVE Ways'
  OBVIOUS
<1>1. ASSUME NEW r \in Request, Arrive(r) \/ Step(r) PROVE Ways'
  <2>1. Works(r)
    BY <1>1, ArriveWorks, StepWorks
  <2>2. Passes(r)
    BY <1>1, ArrivePasses, StepPasses
  <2>3. \A u \in User : email'[u] \in Email => Covered(u)'
    BY <2>1, <2>2, NobodyLeftOut
  <2>4. EmailsUnique'
    BY <1>1, EmailsUniqueStep DEF Ways
  <2>5. QED
    BY <1>1, <2>1, <2>3, <2>4, SpentStep, PasswordsFirst DEF Ways
<1>2. ASSUME UNCHANGED <<rowVars, linkUser, usedAt, inbox, pc, localVars, historyVars>>
      PROVE  Ways'
  <2>1. \A u \in User : Covered(u)' = Covered(u)
    BY <1>2 DEF Covered, HasWay, WorksFor, LinkedElsewhere, At, rowVars, localVars,
                historyVars
  <2>2. QED
    BY <1>2, <2>1 DEF Ways, EmailsUnique, SpentLinkVerifies, At, rowVars, localVars,
                      historyVars
<1>3. ASSUME NEW k \in Link, Expire(k) PROVE Ways'
  BY <1>2, <1>3 DEF Expire
<1>4. CASE UNCHANGED vars
  BY <1>2, <1>4 DEF vars, rowVars, localVars, historyVars
<1>5. QED
  BY <1>1, <1>3, <1>4, AbortWays, DeleteWays DEF Next

\* Who has a way in, and who is about to have one, in every reachable state.
LEMMA WaysInvariant == Spec => []Ways
BY InitInv, InvStep, Invariant, InitWays, WaysStep, PTL DEF Spec

\* Registration, verification and social sign-in write the user, the provider
\* and the link in separate queries: an account that cannot be signed in to
\* has an expired link, an identity linked elsewhere, or had its own handler
\* crash.  No race for an index and no other handler's crash costs the way in.
THEOREM EveryAccountHasAWayIn == Spec => []NobodyLockedOut
<1>1. Inv /\ Ways => NobodyLockedOut
  <2> SUFFICES ASSUME Inv, Ways, NEW u \in User, email[u] \in Email
               PROVE  HasWayIn(u) \/ LinkExpired(u) \/ LinkedElsewhere(u) \/ u \in dropped
    BY DEF NobodyLockedOut
  <2>1. ASSUME u \in password, NEW k \in Link \ usedAt, linkUser[k] = u, inbox[k] # None
        PROVE  HasWayIn(u) \/ LinkExpired(u)
    <3>1. inbox[k] = email[u]
      BY <2>1 DEF Inv, Mails
    <3>2. CASE k \in expired
      BY <2>1, <3>2 DEF LinkExpired
    <3>3. CASE k \notin expired
      BY <2>1, <3>1, <3>3 DEF HasWayIn, LinkWorks
    <3>4. QED
      BY <3>2, <3>3
  <2>2. ASSUME NEW i \in Identity, <<u, i>> \in linked PROVE HasWayIn(u)
    <3>1. PICK e \in Email : AddressOf(u, e)
      BY DEF Inv, Links
    <3>2. <<i, email[u]>> \in Claims
      BY <2>2, <3>1 DEF AddressOf
    <3>3. QED
      BY <2>2, <3>2 DEF HasWayIn
  <2>3. CASE u \in password /\ u \in verified
    BY <2>3 DEF HasWayIn
  <2>4. ASSUME NEW r \in Request, WorksFor(r, u) PROVE HasWayIn(u)
    BY <2>4 DEF HasWayIn
  <2>5. QED
    BY <2>1, <2>2, <2>3, <2>4 DEF Ways, Covered, HasWay
<1>2. QED
  BY <1>1, Invariant, WaysInvariant, PTL

\* verify-email marks the link before the user: a spent link has verified its
\* user or is about to, unless the handler crashed between the two.
THEOREM SpentLinksVerify == Spec => []SpentLinkVerifies
<1>1. Ways => SpentLinkVerifies
  BY DEF Ways
<1>2. QED
  BY <1>1, WaysInvariant, PTL
=============================================================================
