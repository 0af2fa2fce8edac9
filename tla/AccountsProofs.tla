--------------------------- MODULE AccountsProofs ---------------------------
(* Proofs about Accounts: codes, credentials and what tokens claim.          *)
EXTENDS Accounts, TLAPS

\* What a handler serves, from its statement, and that a verification about to
\* delete its code has verified its user.
Servers ==
  \A p \in Requests :
    /\ pc[p] = "createUser" => req[p].op = "register"
    /\ pc[p] = "storeCode" => req[p].op \in {"register", "forgot"}
    /\ pc[p] \in {"updateUser", "deleteCode"} => req[p].op \in Kinds
    /\ pc[p] = "deleteCode" =>
         Known(req[p].email) /\ (req[p].op = "verify" => users[req[p].email].verified)

\* A code stored has been issued for the key it is stored under, which is of a
\* user; a code is issued once, by the last statement of its request.
Codes ==
  /\ \A k \in Keys : codes[k] # None => <<codes[k], k>> \in issued /\ Known(k[2])
  /\ \A x \in issued : pc[x[1]] = "done"
  /\ \A x, y \in issued : x[1] = y[1] => x = y

\* A handler at work has accepted a code issued for its key; one that has ended
\* leaves its code deleted, or kept.
Accepting(p) ==
  /\ pc[p] \in {"updateUser", "deleteCode"} =>
       <<accepted[p], <<req[p].op, req[p].email>>>> \in issued
  /\ accepted[p] # None =>
       /\ pc[accepted[p]] = "done"
       /\ \/ pc[p] \in {"updateUser", "deleteCode"}
          \/ /\ pc[p] \in {"done", "failed"}
             /\ accepted[p] \in kept \/ \A k \in Keys : codes[k] # accepted[p]

Acceptances == \A p \in Requests : Accepting(p)

\* Who gave a password has begun.
Passwords == \A e \in DOMAIN users : pc[users[e].password] # "idle"

\* CredentialsExplained, of one user.
Credentials(e) ==
  LET user == users[e]
      Used(kind, p) == <<accepted[p], <<kind, e>>>> \in issued
  IN  /\ user.emailVerified => \E p \in Requests : Used("verify", p)
      /\ accepted[user.password] # None => Used("reset", user.password)

Inv == /\ TypeOK /\ Servers /\ Codes /\ Acceptances /\ Passwords
       /\ StaysVerifiable /\ CodeReuseExplained /\ CredentialsExplained
       /\ TokensHonest

LEMMA InvInit == Init => Inv
  BY NoneAssumption
     DEF Init, Inv, TypeOK, Servers, Codes, Acceptances, Passwords, StaysVerifiable,
         CodeReuseExplained, CredentialsExplained, TokensHonest, AwaitPc, Known,
         Request, NoRequest, Keys, None, Accepting

----------------------------------------------------------------------------
(* Types *)

RowsOK ==
  /\ DOMAIN users \subseteq Emails
  /\ users \in [DOMAIN users -> User]
  /\ tokens \subseteq Token

RestOK ==
  /\ codes \in [Keys -> Requests \cup {None}]
  /\ mailed \subseteq Requests
  /\ issued \subseteq Requests \X Keys
  /\ pc \in [Requests -> AwaitPc \cup {"idle", "done", "failed"}]
  /\ req \in [Requests -> Request \cup {NoRequest}]
  /\ accepted \in [Requests -> Requests \cup {None}]
  /\ overlapped \subseteq Requests
  /\ kept \subseteq Requests \cup {None}
  /\ unlucky \subseteq Emails
  /\ \A p \in Requests :
       /\ pc[p] \in AwaitPc => req[p] \in Request
       /\ pc[p] \in {"storeCode", "updateUser", "makeHost"} => Known(req[p].email)

LEMMA TypeParts == TypeOK <=> RowsOK /\ RestOK
  BY DEF TypeOK, RowsOK, RestOK

LEMMA TokenTyped ==
  ASSUME NEW e \in Emails, NEW row \in User
  PROVE  TokenFor(e, row) \in Token
  BY DEF TokenFor, Token, User

\* The table after a row of it is written.
LEMMA RowWritten ==
  ASSUME RowsOK, NEW e \in Emails, NEW row \in User, users' = WithUser(e, row)
  PROVE  /\ DOMAIN users' = DOMAIN users \cup {e}
         /\ users'[e] = row
         /\ \A f \in DOMAIN users \ {e} : users'[f] = users[f]
         /\ tokens' \subseteq Token => RowsOK'
  BY DEF RowsOK, WithUser

\* One whose row is known is written with EXCEPT.
LEMMA RowExcept ==
  ASSUME RowsOK, NEW e \in DOMAIN users, NEW row
  PROVE  [users EXCEPT ![e] = row] = WithUser(e, row)
  BY DEF RowsOK, WithUser

LEMMA Welcomed ==
  ASSUME RowsOK, NEW e \in Emails, NEW row \in User,
         Welcome(e, row) \/ Sign(e, row) \/ UNCHANGED tokens
  PROVE  tokens' \subseteq Token
  BY TokenTyped DEF Welcome, Sign, RowsOK

\* What each write says in the row it leaves.
Registered(p, row) ==
  /\ row.password = p /\ ~row.verified /\ ~row.emailVerified
  /\ ~row.host /\ row.profile = None
Onboarded(p, row) ==
  /\ row.password = p /\ row.verified /\ ~row.emailVerified
  /\ row.host /\ row.profile # None
Verified(old, row) ==
  /\ row.password = old.password /\ row.verified /\ row.emailVerified
  /\ row.host = old.host /\ row.profile = old.profile
Reset(p, old, row) ==
  /\ row.password = p /\ row.verified = old.verified
  /\ row.emailVerified = old.emailVerified
  /\ row.host = old.host /\ row.profile = old.profile
Hosting(old, row) ==
  /\ row.password = old.password /\ row.verified = old.verified
  /\ row.emailVerified = old.emailVerified
  /\ row.host /\ row.profile # None

LEMMA RowFields ==
  ASSUME NEW u \in User, NEW p \in Requests
  PROVE  LET verified == [u EXCEPT !.verified = TRUE, !.emailVerified = TRUE]
             reset    == [u EXCEPT !.password = p]
             hosting  == [u EXCEPT !.host = TRUE, !.profile = "plain"]
         IN  /\ verified \in User /\ Verified(u, verified)
             /\ reset \in User /\ Reset(p, u, reset)
             /\ hosting \in User /\ Hosting(u, hosting)
  BY DEF User, Verified, Reset, Hosting, None

LEMMA RowsStep ==
  ASSUME Inv, NEW p \in Requests, Step(p), users' # users
  PROVE  \E e \in Emails, row \in User :
           /\ e = req[p].email
           /\ users' = WithUser(e, row)
           /\ \/ CreateUser(p) /\ ~Known(e) /\ Registered(p, row)
              \/ CreateHost(p) /\ ~Known(e) /\ Onboarded(p, row)
              \/ /\ UpdateUser(p) /\ Known(e) /\ users[e] \in User
                 /\ \/ req[p].op = "verify" /\ Verified(users[e], row)
                    \/ req[p].op = "reset" /\ Reset(p, users[e], row)
              \/ MakeHost(p) /\ Known(e) /\ users[e] \in User /\ Hosting(users[e], row)
           /\ CreateUser(p) \/ UpdateUser(p) => UNCHANGED tokens
           /\ Welcome(e, row) \/ UNCHANGED tokens
  <1>. TypeOK /\ RowsOK /\ Servers
    BY TypeParts DEF Inv
  <1>1. CreateUser(p) \/ UpdateUser(p) \/ MakeHost(p) \/ CreateHost(p)
    BY DEF Step, Register, ForgotPassword, OnboardNew, FindUser, GetCode, StoreCode,
           DeleteCode, Crash, Throw
  <1>2. req[p] \in Request /\ req[p].email \in Emails
    BY <1>1 DEF TypeOK, AwaitPc, Request, CreateUser, UpdateUser, MakeHost, CreateHost
  <1>. DEFINE e == req[p].email
  <1>3. CASE CreateUser(p)
    <2>. DEFINE row == [password |-> p, verified |-> FALSE, emailVerified |-> FALSE,
                        host |-> FALSE, profile |-> None]
    <2>1. row \in User /\ Registered(p, row)
      BY DEF User, None, Registered
    <2>2. users' = WithUser(e, row) /\ ~Known(e) /\ UNCHANGED tokens
      BY <1>3 DEF CreateUser, Throw
    <2>. QED  BY <1>2, <1>3, <2>1, <2>2
  <1>4. CASE CreateHost(p)
    <2>. DEFINE row == [password |-> p, verified |-> TRUE, emailVerified |-> FALSE,
                        host |-> TRUE, profile |-> "plain"]
    <2>1. row \in User /\ Onboarded(p, row)
      BY DEF User, None, Onboarded
    <2>2. users' = WithUser(e, row) /\ ~Known(e) /\ Welcome(e, row)
      BY <1>4 DEF CreateHost, Throw
    <2>3. ~CreateUser(p) /\ ~UpdateUser(p)
      BY <1>4 DEF CreateHost, CreateUser, UpdateUser
    <2>. QED  BY <1>2, <1>4, <2>1, <2>2, <2>3
  <1>5. CASE UpdateUser(p)
    <2>1. users[e] \in User /\ Known(e) /\ UNCHANGED tokens
      BY <1>5 DEF UpdateUser, RowsOK, Known
    <2>2. CASE req[p].op = "verify"
      <3>. DEFINE row == [users[e] EXCEPT !.verified = TRUE, !.emailVerified = TRUE]
      <3>1. row \in User /\ Verified(users[e], row)
        BY <2>1, RowFields
      <3>2. users' = WithUser(e, row)
        BY <1>5, <2>1, <2>2, RowExcept DEF UpdateUser, Known, RowsOK
      <3>. QED  BY <1>2, <1>5, <2>1, <2>2, <3>1, <3>2
    <2>3. CASE req[p].op = "reset"
      <3>. DEFINE row == [users[e] EXCEPT !.password = p]
      <3>1. row \in User /\ Reset(p, users[e], row)
        BY <2>1, RowFields
      <3>2. users' = WithUser(e, row)
        BY <1>5, <2>1, <2>3, RowExcept DEF UpdateUser, Known, RowsOK
      <3>. QED  BY <1>2, <1>5, <2>1, <2>3, <3>1, <3>2
    <2>. QED  BY <1>5, <2>2, <2>3 DEF UpdateUser, Servers, Kinds
  <1>6. CASE MakeHost(p)
    <2>. DEFINE row == [users[e] EXCEPT !.host = TRUE, !.profile = "plain"]
    <2>1. users[e] \in User /\ Known(e)
      BY <1>6 DEF MakeHost, RowsOK, TypeOK, Known
    <2>2. row \in User /\ Hosting(users[e], row)
      BY <2>1, RowFields
    <2>3. users' = WithUser(e, row) /\ (Welcome(e, row) \/ UNCHANGED tokens)
      BY <1>6, <2>1, RowExcept DEF MakeHost, Throw, Known
    <2>4. ~CreateUser(p) /\ ~UpdateUser(p)
      BY <1>6 DEF MakeHost, CreateUser, UpdateUser
    <2>. QED  BY <1>2, <1>6, <2>1, <2>2, <2>3, <2>4
  <1>. QED  BY <1>1, <1>3, <1>4, <1>5, <1>6

\* Rows stay, and what they say of verification and hosting stays true.
Grows ==
  /\ DOMAIN users \subseteq DOMAIN users'
  /\ \A e \in DOMAIN users : /\ users[e].verified => users'[e].verified
                             /\ users[e].host => users'[e].host

LEMMA UsersGrow ==
  ASSUME Inv, NEW p \in Requests, Step(p)
  PROVE  RowsOK' /\ Grows
  <1>. RowsOK
    BY TypeParts DEF Inv
  <1>1. CASE UNCHANGED users
    <2>1. tokens' \subseteq Token
      <3>1. ASSUME NEW e \in Emails, NEW op \in {"becomeHost", "onboard"}, FindUser(p, op, e)
            PROVE  tokens' \subseteq Token
        BY <3>1, Welcomed DEF FindUser, RowsOK, Known
      <3>2. CASE MakeHost(p)
        <4>1. req[p].email \in DOMAIN users /\ users[req[p].email] \in User
          BY <3>2 DEF MakeHost, Inv, TypeOK, Known
        <4>2. [users[req[p].email] EXCEPT !.host = TRUE, !.profile = "plain"] \in User
          BY <4>1 DEF User
        <4>. QED  BY <3>2, <4>1, <4>2, Welcomed DEF MakeHost, Throw, RowsOK
      <3>4. CASE CreateHost(p)
        <4>1. req[p].email \in Emails
          BY <3>4 DEF CreateHost, Inv, TypeOK, AwaitPc, Request
        <4>. QED  BY <3>4, <4>1, Welcomed DEF CreateHost, Throw, User, RowsOK
      <3>3. CASE ~(MakeHost(p) \/ CreateHost(p)
                   \/ \E e \in Emails, op \in {"becomeHost", "onboard"} : FindUser(p, op, e))
        <4>1. UNCHANGED tokens
          BY <3>3 DEF Step, Register, ForgotPassword, OnboardNew, GetCode, CreateUser,
               StoreCode, UpdateUser, DeleteCode, Crash, Throw
        <4>. QED  BY <4>1 DEF RowsOK
      <3>. QED  BY <3>1, <3>2, <3>3, <3>4
    <2>. QED  BY <1>1, <2>1 DEF RowsOK, Grows
  <1>2. CASE users' # users
    <2>1. PICK e \in Emails, row \in User :
            /\ users' = WithUser(e, row)
            /\ Known(e) => /\ users[e].verified => row.verified
                           /\ users[e].host => row.host
            /\ Welcome(e, row) \/ UNCHANGED tokens
      BY <1>2, RowsStep DEF Verified, Reset, Hosting
    <2>2. /\ DOMAIN users' = DOMAIN users \cup {e}
          /\ users'[e] = row
          /\ \A f \in DOMAIN users \ {e} : users'[f] = users[f]
          /\ tokens' \subseteq Token => RowsOK'
      BY <2>1, RowWritten
    <2>3. Grows
      BY <2>1, <2>2 DEF Grows, Known
    <2>. QED  BY <2>1, <2>2, <2>3, Welcomed
  <1>. QED  BY <1>1, <1>2

LEMMA RestStep ==
  ASSUME Inv, NEW p \in Requests, Step(p)
  PROVE  RestOK'
  <1>. TypeOK /\ RestOK /\ Servers /\ DOMAIN users \subseteq DOMAIN users'
    BY TypeParts, UsersGrow DEF Inv, Grows
  <1>. USE DEF AwaitPc, Known
  <1>1. ASSUME NEW e \in Emails,
               Register(p, e) \/ ForgotPassword(p, e) \/ OnboardNew(p, e)
        PROVE  RestOK'
    BY <1>1 DEF RestOK, Register, ForgotPassword, OnboardNew, Begin, redis, history,
                Request, NoRequest
  <1>2. ASSUME NEW e \in Emails, NEW op \in {"becomeHost", "onboard"}, FindUser(p, op, e)
        PROVE  RestOK'
    BY <1>2 DEF RestOK, FindUser, Begin, redis, history, Request
  <1>3. ASSUME NEW e \in Emails, NEW kind \in Kinds, NEW otp \in mailed, GetCode(p, kind, e, otp)
        PROVE  RestOK'
    <2>1. otp # None /\ otp \in Requests
      BY NoneAssumption DEF RestOK
    <2>2. codes[Key(kind, e)] = otp => Known(e)
      BY <2>1 DEF Inv, Codes, Key, Keys
    <2>. QED
      BY <1>3, <2>1, <2>2 DEF RestOK, GetCode, Begin, redis, history, Request
  <1>4. CASE CreateUser(p)
    BY <1>4, RowWritten DEF RestOK, CreateUser, Goto, Throw, End, redis, history, WithUser
  <1>5. CASE StoreCode(p)
    BY <1>5 DEF RestOK, StoreCode, Finish, End, Key, Keys, Kinds, Request, NoRequest
  <1>6. CASE UpdateUser(p)
    BY <1>6 DEF RestOK, UpdateUser, Goto, redis, history
  <1>7. CASE DeleteCode(p)
    BY <1>7 DEF RestOK, DeleteCode, Finish, End, Key, Keys, Kinds, Request, NoRequest, Servers
  <1>8. CASE MakeHost(p) \/ CreateHost(p)
    BY <1>8 DEF RestOK, MakeHost, CreateHost, Finish, Throw, End, redis, history, Request,
                NoRequest
  <1>9. CASE Crash(p)
    BY <1>9 DEF RestOK, Crash, Throw, End, redis, Request, NoRequest
  <1>. QED
    BY <1>1, <1>2, <1>3, <1>4, <1>5, <1>6, <1>7, <1>8, <1>9 DEF Step

----------------------------------------------------------------------------
(* Handlers and codes *)

LEMMA ServersStep ==
  ASSUME Inv, NEW p \in Requests, Step(p)
  PROVE  Servers'
  <1>. TypeOK /\ Servers /\ Grows
    BY UsersGrow DEF Inv
  <1>. USE DEF AwaitPc, Known, Grows, Kinds
  <1>1. ASSUME NEW e \in Emails,
               Register(p, e) \/ ForgotPassword(p, e) \/ OnboardNew(p, e)
        PROVE  Servers'
    BY <1>1 DEF TypeOK, Servers, Register, ForgotPassword, OnboardNew, Begin
  <1>2. ASSUME NEW e \in Emails, NEW op \in {"becomeHost", "onboard"}, FindUser(p, op, e)
        PROVE  Servers'
    BY <1>2 DEF TypeOK, Servers, FindUser, Begin
  <1>3. ASSUME NEW e \in Emails, NEW kind \in Kinds, NEW otp \in mailed, GetCode(p, kind, e, otp)
        PROVE  Servers'
    BY <1>3 DEF TypeOK, Servers, GetCode, Begin
  <1>4. CASE CreateUser(p)
    BY <1>4 DEF TypeOK, Servers, CreateUser, Goto, Throw, End
  <1>5. CASE UpdateUser(p)
    <2>1. req[p].op = "verify" => users'[req[p].email].verified
      BY <1>5 DEF UpdateUser, TypeOK, User
    <2>. QED  BY <1>5, <2>1 DEF TypeOK, Servers, UpdateUser, Goto
  <1>6. CASE StoreCode(p) \/ DeleteCode(p)
    BY <1>6 DEF TypeOK, Servers, StoreCode, DeleteCode, Finish, End
  <1>7. CASE MakeHost(p) \/ CreateHost(p) \/ Crash(p)
    BY <1>7 DEF TypeOK, Servers, MakeHost, CreateHost, Crash, Finish, Throw, End
  <1>. QED
    BY <1>1, <1>2, <1>3, <1>4, <1>5, <1>6, <1>7 DEF Step

LEMMA CodesStep ==
  ASSUME Inv, NEW p \in Requests, Step(p)
  PROVE  Codes'
  <1>. TypeOK /\ Servers /\ Codes /\ Grows
    BY UsersGrow DEF Inv
  <1>1. CASE StoreCode(p)
    <2>. DEFINE kind == IF req[p].op = "register" THEN "verify" ELSE "reset"
                k == <<kind, req[p].email>>
    <2>0. /\ k \in Keys /\ Known(req[p].email) /\ k[2] = req[p].email
          /\ issued' = issued \cup {<<p, k>>}
          /\ codes' = codes \/ codes' = [codes EXCEPT ![k] = p]
      BY <1>1 DEF StoreCode, Key, Keys, Kinds, TypeOK, Request, AwaitPc
    <2>. HIDE DEF k
    <2>1. \A x \in issued : x[1] # p
      BY <1>1 DEF StoreCode, Codes
    <2>2. pc' = [pc EXCEPT ![p] = "done"]
      BY <1>1 DEF StoreCode, Finish, End
    <2>. QED
      BY <2>0, <2>1, <2>2 DEF Codes, TypeOK, Known, Grows
  <1>2. CASE ~StoreCode(p)
    <2>1. /\ UNCHANGED issued
          /\ \A k \in Keys : codes'[k] \in {codes[k], None}
      BY <1>2 DEF Step, Register, ForgotPassword, OnboardNew, FindUser, GetCode, CreateUser,
           UpdateUser, DeleteCode, MakeHost, CreateHost, Crash, Throw, redis, TypeOK, Key, Keys
    <2>2. \A x \in issued : pc'[x[1]] = "done"
      <3>1. pc[p] # "done"
        BY DEF Step, Register, ForgotPassword, OnboardNew, FindUser, GetCode, CreateUser,
           StoreCode, UpdateUser, DeleteCode, MakeHost, CreateHost, Crash, AwaitPc, Begin
      <3>2. \A q \in Requests \ {p} : pc'[q] = pc[q]
        BY DEF Step, Register, ForgotPassword, OnboardNew, FindUser, GetCode, CreateUser,
           StoreCode, UpdateUser, DeleteCode, MakeHost, CreateHost, Crash, Begin, Goto,
           Finish, Throw, End, TypeOK
      <3>. QED  BY <3>1, <3>2 DEF Codes, TypeOK
    <2>. QED  BY <2>1, <2>2 DEF Codes, Known, Grows
  <1>. QED  BY <1>1, <1>2

\* What a step of one handler leaves of the others, and of what is on record.
LEMMA Frame ==
  ASSUME Inv, NEW p \in Requests, Step(p)
  PROVE  /\ \A q \in Requests \ {p} : /\ pc'[q] = pc[q]
                                      /\ req'[q] = req[q]
                                      /\ accepted'[q] = accepted[q]
         /\ pc[p] \notin {"done", "failed"}
         /\ pc[p] # "idle" => accepted'[p] = accepted[p]
         /\ pc'[p] # "idle"
         /\ issued \subseteq issued' /\ kept \subseteq kept'
         /\ unlucky \subseteq unlucky' /\ mailed \subseteq mailed'
         /\ overlapped \subseteq overlapped'
         /\ \A k \in Keys : codes'[k] \in {codes[k], None, p}
  <1>. TypeOK
    BY DEF Inv
  <1>. USE DEF AwaitPc, TypeOK, Begin, Goto, Finish, Throw, End, redis, history
  <1>1. CASE \E e \in Emails :
                \/ Register(p, e) \/ ForgotPassword(p, e) \/ OnboardNew(p, e)
                \/ \E op \in {"becomeHost", "onboard"} : FindUser(p, op, e)
    BY <1>1 DEF Register, ForgotPassword, OnboardNew, FindUser
  <1>2. CASE \E e \in Emails, kind \in Kinds, otp \in mailed : GetCode(p, kind, e, otp)
    BY <1>2 DEF GetCode
  <1>3. CASE CreateUser(p) \/ UpdateUser(p)
    BY <1>3 DEF CreateUser, UpdateUser
  <1>4. CASE StoreCode(p)
    BY <1>4 DEF StoreCode, Keys, Key
  <1>5. CASE DeleteCode(p)
    BY <1>5 DEF DeleteCode, Keys, Key
  <1>6. CASE MakeHost(p) \/ CreateHost(p) \/ Crash(p)
    BY <1>6 DEF MakeHost, CreateHost, Crash
  <1>. QED  BY <1>1, <1>2, <1>3, <1>4, <1>5, <1>6 DEF Step

LEMMA IssuedOnce ==
  ASSUME Codes, NEW c, NEW j, NEW k, <<c, j>> \in issued, <<c, k>> \in issued
  PROVE  j = k
  <1>. DEFINE x == <<c, j>>
              y == <<c, k>>
  <1>1. x[1] = y[1] => x = y
    BY DEF Codes
  <1>. QED  BY <1>1

LEMMA AcceptancesStep ==
  ASSUME Inv, NEW p \in Requests, Step(p)
  PROVE  Acceptances'
  <1>. TypeOK /\ Servers /\ Codes /\ Acceptances /\ None \notin Requests
    BY NoneAssumption DEF Inv
  <1>1. ASSUME NEW q \in Requests \ {p}
        PROVE  Accepting(q)'
    <2>1. Accepting(q) /\ accepted[q] \in Requests \cup {None}
      BY DEF Acceptances, TypeOK
    <2>2. accepted[q] # None => accepted[q] # p /\ pc'[accepted[q]] = "done"
      BY <2>1, Frame DEF Accepting
    <2>. QED  BY <2>1, <2>2, Frame DEF Accepting
  <1>2. Accepting(p)'
    <2>. Accepting(p)
      BY DEF Acceptances
    <2>. USE DEF TypeOK, AwaitPc
    <2>0. /\ accepted[p] # None => accepted[p] \in Requests /\ pc'[accepted[p]] = "done"
      BY Frame DEF Accepting
    <2>1. CASE \E e \in Emails :
                \/ Register(p, e) \/ ForgotPassword(p, e) \/ OnboardNew(p, e)
                \/ \E op \in {"becomeHost", "onboard"} : FindUser(p, op, e)
      BY <2>1 DEF Accepting, Register, ForgotPassword, OnboardNew, FindUser, Begin, history
    <2>2. CASE \E e \in Emails, kind \in Kinds, otp \in mailed : GetCode(p, kind, e, otp)
      <3>1. PICK e \in Emails, kind \in Kinds, otp \in mailed : GetCode(p, kind, e, otp)
        BY <2>2
      <3>2. otp \in Requests /\ <<kind, e>> \in Keys
        BY DEF Keys
      <3>3. codes[<<kind, e>>] = otp => <<otp, <<kind, e>>>> \in issued /\ pc[otp] = "done"
        BY <3>2 DEF Codes
      <3>. QED
        BY <3>1, <3>2, <3>3, Frame DEF Accepting, GetCode, Key, Begin, redis, history
    <2>3. CASE CreateUser(p) \/ MakeHost(p) \/ CreateHost(p)
      BY <2>3 DEF Accepting, CreateUser, MakeHost, CreateHost, Goto, Finish, Throw, End, history
    <2>4. CASE StoreCode(p)
      BY <2>4 DEF Accepting, StoreCode, Finish, End
    <2>5. CASE UpdateUser(p)
      BY <2>0, <2>5 DEF Accepting, UpdateUser, Goto, redis, history
    <2>6. CASE DeleteCode(p)
      <3>. DEFINE k == <<req[p].op, req[p].email>>
      <3>1. k \in Keys /\ <<accepted[p], k>> \in issued
        BY <2>6 DEF DeleteCode, Servers, Keys, Request, Accepting
      <3>2. \A j \in Keys : codes[j] = accepted[p] /\ accepted[p] # None => j = k
        <4>1. ASSUME NEW j \in Keys, codes[j] = accepted[p], accepted[p] # None
              PROVE  j = k
          <5>1. <<accepted[p], j>> \in issued
            BY <4>1 DEF Codes
          <5>. HIDE DEF k
          <5>. QED  BY <3>1, <5>1, IssuedOnce
        <4>. QED  BY <4>1
      <3>3. /\ pc' = [pc EXCEPT ![p] = "done"]
            /\ \/ codes' = [codes EXCEPT ![k] = None] /\ UNCHANGED kept
               \/ kept' = kept \cup {accepted[p]} /\ UNCHANGED codes
            /\ UNCHANGED accepted
        BY <2>6 DEF DeleteCode, Finish, End, Key
      <3>. HIDE DEF k
      <3>4. accepted[p] # None =>
               accepted[p] \in kept' \/ \A j \in Keys : codes'[j] # accepted[p]
        <4>1. ASSUME NEW j \in Keys, accepted[p] # None, codes' = [codes EXCEPT ![k] = None]
              PROVE  codes'[j] # accepted[p]
          BY <3>1, <3>2, <4>1
        <4>. QED  BY <3>3, <4>1
      <3>. QED  BY <2>0, <3>3, <3>4 DEF Accepting
    <2>7. CASE Crash(p)
      BY <2>0, <2>7 DEF Accepting, Crash, Throw, End, redis
    <2>. QED  BY <2>1, <2>2, <2>3, <2>4, <2>5, <2>6, <2>7 DEF Step
  <1>. QED  BY <1>1, <1>2 DEF Acceptances

LEMMA PasswordsStep ==
  ASSUME Inv, NEW p \in Requests, Step(p)
  PROVE  Passwords'
  <1>. RowsOK /\ Passwords
    BY TypeParts DEF Inv
  <1>. \A e \in DOMAIN users : users[e] \in User /\ users[e].password \in Requests
    BY DEF RowsOK, User
  <1>0. \A q \in Requests : pc[q] # "idle" => pc'[q] # "idle"
    BY Frame
  <1>1. CASE UNCHANGED users
    BY <1>0, <1>1 DEF Passwords
  <1>2. CASE users' # users
    <2>1. PICK e \in Emails, row \in User :
            /\ users' = WithUser(e, row)
            /\ row.password = p \/ (Known(e) /\ row.password = users[e].password)
      BY <1>2, RowsStep DEF Registered, Onboarded, Verified, Reset, Hosting
    <2>2. /\ DOMAIN users' = DOMAIN users \cup {e}
          /\ users'[e] = row
          /\ \A f \in DOMAIN users \ {e} : users'[f] = users[f]
      BY <2>1, RowWritten
    <2>3. pc'[p] # "idle"
      BY Frame
    <2>. QED  BY <1>0, <2>1, <2>2, <2>3 DEF Passwords, Known
  <1>. QED  BY <1>1, <1>2

----------------------------------------------------------------------------
(* The properties *)

LEMMA VerifiableStep ==
  ASSUME Inv, NEW p \in Requests, Step(p)
  PROVE  StaysVerifiable'
  <1>. TypeOK /\ Servers /\ StaysVerifiable
    BY DEF Inv
  <1>. SUFFICES ASSUME NEW e \in DOMAIN users', ~users'[e].verified
                PROVE  (\/ codes[<<"verify", e>>] \in mailed
                        \/ e \in unlucky
                        \/ \E q \in Requests : /\ pc[q] = "storeCode"
                                               /\ req[q] = [op |-> "register", email |-> e])'
    BY DEF StaysVerifiable
  <1>1. /\ unlucky \subseteq unlucky' /\ mailed \subseteq mailed'
        /\ \A q \in Requests \ {p} : pc'[q] = pc[q] /\ req'[q] = req[q]
    BY Frame
  <1>2. CASE Known(e) /\ ~users[e].verified
    <2>1. CASE pc[p] = "storeCode" /\ req[p] = [op |-> "register", email |-> e]
      <3>1. StoreCode(p) \/ Throw(p)
        BY <2>1 DEF Step, Register, ForgotPassword, OnboardNew, FindUser, GetCode,
         CreateUser, UpdateUser, DeleteCode, MakeHost, CreateHost, Crash, Begin
      <3>2. <<"verify", e>> \in Keys
        BY <1>2 DEF Keys, Kinds, TypeOK, Known
      <3>. QED  BY <2>1, <3>1, <3>2 DEF StoreCode, Throw, Key, TypeOK
    <2>2. CASE ~(pc[p] = "storeCode" /\ req[p] = [op |-> "register", email |-> e])
      <3>1. CASE codes'[<<"verify", e>>] = codes[<<"verify", e>>]
        BY <1>1, <1>2, <2>2, <3>1 DEF StaysVerifiable, Known
      <3>2. CASE StoreCode(p)
        <4>1. <<"verify", e>> \in Keys
          BY <1>2 DEF Keys, Kinds, TypeOK, Known
        <4>2. req[p].op = "register" => req[p].email # e
          BY <2>2, <3>2 DEF StoreCode, TypeOK, AwaitPc, Request
        <4>3. codes'[<<"verify", e>>] = codes[<<"verify", e>>]
          BY <3>2, <4>1, <4>2 DEF StoreCode, Key, TypeOK
        <4>. QED  BY <3>1, <4>3
      <3>3. CASE DeleteCode(p)
        <4>1. ~(req[p].op = "verify" /\ req[p].email = e)
          BY <1>2, <3>3 DEF Servers, DeleteCode, Known
        <4>2. <<"verify", e>> \in Keys
          BY <1>2 DEF Keys, Kinds, TypeOK, Known
        <4>3. codes'[<<"verify", e>>] = codes[<<"verify", e>>]
          BY <3>3, <4>1, <4>2 DEF DeleteCode, Key, TypeOK
        <4>. QED  BY <3>1, <4>3
      <3>4. CASE ~(StoreCode(p) \/ DeleteCode(p))
        <4>1. UNCHANGED codes
          BY <3>4 DEF Step, Register, ForgotPassword, OnboardNew, FindUser, GetCode,
               CreateUser, UpdateUser, MakeHost, CreateHost, Crash, Throw, redis
        <4>. QED  BY <3>1, <4>1
      <3>. QED  BY <3>2, <3>3, <3>4
    <2>. QED  BY <2>1, <2>2
  <1>3. CASE ~(Known(e) /\ ~users[e].verified)
    <2>1. users' # users
      BY <1>3 DEF Known
    <2>2. PICK f \in Emails, row \in User :
            /\ f = req[p].email
            /\ users' = WithUser(f, row)
            /\ row.verified \/ CreateUser(p) \/ (Known(f) /\ row.verified = users[f].verified)
      BY <2>1, RowsStep DEF Onboarded, Verified, Reset, Hosting
    <2>3. /\ DOMAIN users' = DOMAIN users \cup {f}
          /\ users'[f] = row
          /\ \A g \in DOMAIN users \ {f} : users'[g] = users[g]
      BY <2>2, RowWritten, TypeParts
    <2>4. e = f /\ CreateUser(p)
      BY <1>3, <2>2, <2>3 DEF Known
    <2>5. ~Throw(p)
      BY <2>1 DEF Throw
    <2>6. pc'[p] = "storeCode" /\ req'[p] = req[p]
      BY <2>4, <2>5 DEF CreateUser, Goto, TypeOK
    <2>7. req[p] = [op |-> "register", email |-> e]
      BY <2>2, <2>4 DEF CreateUser, Servers, TypeOK, AwaitPc, Request
    <2>. QED  BY <2>6, <2>7
  <1>. QED  BY <1>2, <1>3

LEMMA CodeReuseStep ==
  ASSUME Inv, NEW p \in Requests, Step(p)
  PROVE  CodeReuseExplained'
  <1>. TypeOK /\ Acceptances /\ CodeReuseExplained
    BY DEF Inv
  <1>1. CASE accepted'[p] = accepted[p]
    BY <1>1, Frame DEF CodeReuseExplained
  <1>2. CASE accepted'[p] # accepted[p]
    <2>1. PICK e \in Emails, kind \in Kinds, otp \in mailed : GetCode(p, kind, e, otp)
      BY <1>2 DEF Step, Register, ForgotPassword, OnboardNew, FindUser, CreateUser,
           StoreCode, UpdateUser, DeleteCode, MakeHost, CreateHost, Crash, Throw, history
    <2>2. /\ <<kind, e>> \in Keys /\ codes[<<kind, e>>] = otp
          /\ accepted'[p] = otp
          /\ (\E q \in Requests \ {p} : accepted[q] = otp /\ pc[q] \in AwaitPc) =>
                p \in overlapped'
      BY <1>2, <2>1 DEF GetCode, Key, Keys, history, TypeOK
    <2>3. ASSUME NEW q \in Requests \ {p}, accepted'[q] = otp, otp # None
          PROVE  p \in overlapped' \/ otp \in kept'
      <3>1. Accepting(q) /\ accepted[q] = otp
        BY <2>3, Frame DEF Acceptances
      <3>. QED  BY <2>2, <2>3, <3>1, Frame DEF Accepting, AwaitPc
    <2>4. ASSUME NEW q \in Requests \ {p}, NEW r \in Requests \ {p}, q # r,
                 accepted'[q] = accepted'[r], accepted'[q] # None
          PROVE  {q, r} \cap overlapped' # {} \/ accepted'[q] \in kept'
      BY <2>4, Frame DEF CodeReuseExplained
    <2>. QED  BY <2>2, <2>3, <2>4 DEF CodeReuseExplained
  <1>. QED  BY <1>1, <1>2

LEMMA CredentialsStep ==
  ASSUME Inv, NEW p \in Requests, Step(p)
  PROVE  CredentialsExplained'
  <1>. TypeOK /\ Servers /\ Acceptances /\ Passwords /\ CredentialsExplained
       /\ None \notin Requests
    BY NoneAssumption DEF Inv
  <1>1. \A q \in Requests : accepted[q] # None \/ pc[q] # "idle" => accepted'[q] = accepted[q]
    BY Frame DEF Acceptances, Accepting
  <1>2. \A q \in Requests : \A k : <<accepted[q], k>> \in issued => <<accepted'[q], k>> \in issued'
    BY <1>1, Frame DEF TypeOK
  <1>3. ASSUME NEW e \in DOMAIN users, users'[e].password = users[e].password,
               users'[e].emailVerified => users[e].emailVerified
        PROVE  Credentials(e)'
    <2>1. Credentials(e) /\ pc[users[e].password] # "idle" /\ users[e].password \in Requests
      BY DEF CredentialsExplained, Credentials, Passwords, TypeOK, User
    <2>2. accepted'[users[e].password] = accepted[users[e].password]
      BY <1>1, <2>1
    <2>. QED  BY <1>2, <1>3, <2>1, <2>2 DEF Credentials
  <1>4. CASE UNCHANGED users
    BY <1>3, <1>4 DEF CredentialsExplained, Credentials
  <1>5. CASE users' # users
    <2>1. PICK e \in Emails, row \in User :
            /\ e = req[p].email
            /\ users' = WithUser(e, row)
            /\ \/ CreateUser(p) /\ ~Known(e) /\ Registered(p, row)
               \/ CreateHost(p) /\ ~Known(e) /\ Onboarded(p, row)
               \/ /\ UpdateUser(p) /\ Known(e)
                  /\ \/ req[p].op = "verify" /\ Verified(users[e], row)
                     \/ req[p].op = "reset" /\ Reset(p, users[e], row)
               \/ Known(e) /\ Hosting(users[e], row)
      BY <1>5, RowsStep
    <2>2. /\ DOMAIN users' = DOMAIN users \cup {e}
          /\ users'[e] = row
          /\ \A f \in DOMAIN users \ {e} : users'[f] = users[f]
      BY <2>1, RowWritten, TypeParts
    <2>3. \A f \in DOMAIN users \ {e} : Credentials(f)'
      BY <1>3, <2>2
    <2>4. Accepting(p)
      BY DEF Acceptances
    <2>5. Credentials(e)'
      <3>5. CASE (Registered(p, row) /\ CreateUser(p)) \/ (Onboarded(p, row) /\ CreateHost(p))
        <4>1. accepted'[p] = None
          BY <1>1, <2>4, <3>5 DEF CreateUser, CreateHost, Accepting
        <4>. QED  BY <2>2, <3>5, <4>1 DEF Registered, Onboarded, Credentials
      <3>6. CASE Known(e) /\ Hosting(users[e], row)
        BY <1>3, <2>2, <3>6 DEF Hosting, Known
      <3>7. CASE UpdateUser(p) /\ Known(e) /\ req[p].op = "verify" /\ Verified(users[e], row)
        <4>1. Credentials(e) /\ pc[users[e].password] # "idle" /\ users[e].password \in Requests
          BY <3>7 DEF CredentialsExplained, Credentials, Passwords, TypeOK, User, Known
        <4>2. <<accepted'[p], <<"verify", e>>>> \in issued'
          BY <1>2, <2>1, <2>4, <3>7 DEF UpdateUser, Accepting
        <4>. QED  BY <1>1, <1>2, <2>2, <3>7, <4>1, <4>2 DEF Credentials, Verified
      <3>8. CASE UpdateUser(p) /\ Known(e) /\ req[p].op = "reset" /\ Reset(p, users[e], row)
        <4>1. Credentials(e)
          BY <3>8 DEF CredentialsExplained, Credentials, Known
        <4>2. <<accepted'[p], <<"reset", e>>>> \in issued'
          BY <1>2, <2>1, <2>4, <3>8 DEF UpdateUser, Accepting
        <4>. QED  BY <1>2, <2>2, <3>8, <4>1, <4>2 DEF Credentials, Reset
      <3>. QED  BY <2>1, <3>5, <3>6, <3>7, <3>8
    <2>. QED  BY <2>2, <2>3, <2>5 DEF CredentialsExplained, Credentials
  <1>. QED  BY <1>4, <1>5

\* A token signed says what the row of its user says by then.
LEMMA TokensGrow ==
  ASSUME Inv, NEW p \in Requests, Step(p), NEW t \in tokens', t \notin tokens
  PROVE  \E e \in DOMAIN users' : t = TokenFor(e, users'[e])
  <1>. TypeOK /\ RowsOK
    BY TypeParts DEF Inv
  <1>1. CASE users' # users
    <2>1. PICK e \in Emails, row \in User :
            users' = WithUser(e, row) /\ (Welcome(e, row) \/ UNCHANGED tokens)
      BY <1>1, RowsStep
    <2>2. e \in DOMAIN users' /\ users'[e] = row
      BY <2>1, RowWritten
    <2>. QED  BY <2>1, <2>2 DEF Welcome, Sign
  <1>2. CASE UNCHANGED users
    <2>1. CASE \E e \in Emails, op \in {"becomeHost", "onboard"} : FindUser(p, op, e)
      BY <1>2, <2>1 DEF FindUser, Welcome, Sign, Known
    <2>2. CASE MakeHost(p)
      <3>. DEFINE e == req[p].email
                  row == [users[e] EXCEPT !.host = TRUE, !.profile = "plain"]
      <3>1. e \in DOMAIN users
        BY <2>2 DEF MakeHost, TypeOK, Known
      <3>2. users' = [users EXCEPT ![e] = row] /\ Welcome(e, row)
        BY <2>2 DEF MakeHost, Throw
      <3>3. users'[e] = row
        BY <3>1, <3>2 DEF RowsOK
      <3>. QED  BY <1>2, <3>1, <3>2, <3>3 DEF Welcome, Sign
    <2>3. CASE CreateHost(p)
      <3>. DEFINE e == req[p].email
                  row == [password |-> p, verified |-> TRUE, emailVerified |-> FALSE,
                          host |-> TRUE, profile |-> "plain"]
      <3>1. users' = WithUser(e, row) /\ Welcome(e, row)
        BY <2>3 DEF CreateHost, Throw
      <3>. HIDE DEF row
      <3>2. e \in DOMAIN users' /\ users'[e] = row
        BY <3>1 DEF WithUser
      <3>. QED  BY <3>1, <3>2 DEF Welcome, Sign
    <2>4. CASE ~(MakeHost(p) \/ CreateHost(p)
                 \/ \E e \in Emails, op \in {"becomeHost", "onboard"} : FindUser(p, op, e))
      BY <2>4 DEF Step, Register, ForgotPassword, OnboardNew, GetCode, CreateUser,
           StoreCode, UpdateUser, DeleteCode, Crash, Throw
    <2>. QED  BY <2>1, <2>2, <2>3, <2>4
  <1>. QED  BY <1>1, <1>2

LEMMA TokensStep ==
  ASSUME Inv, NEW p \in Requests, Step(p)
  PROVE  TokensHonest'
  <1>. RowsOK /\ TokensHonest /\ Grows
    BY TypeParts, UsersGrow DEF Inv
  <1>1. \A e \in DOMAIN users' : users'[e].host <=> users'[e].profile # None
    <2>1. CASE UNCHANGED users
      BY <2>1 DEF TokensHonest
    <2>2. CASE users' # users
      <3>1. PICK e \in Emails, row \in User :
              /\ users' = WithUser(e, row)
              /\ \/ row.host <=> row.profile # None
                 \/ /\ Known(e)
                    /\ row.host = users[e].host /\ row.profile = users[e].profile
        BY <2>2, RowsStep DEF Registered, Onboarded, Verified, Reset, Hosting
      <3>2. /\ DOMAIN users' = DOMAIN users \cup {e}
            /\ users'[e] = row
            /\ \A f \in DOMAIN users \ {e} : users'[f] = users[f]
        BY <3>1, RowWritten
      <3>. QED  BY <3>1, <3>2 DEF TokensHonest, Known
    <2>. QED  BY <2>1, <2>2
  <1>2. ASSUME NEW t \in tokens'
        PROVE  /\ Known(t.sub)'
               /\ t.host => users'[t.sub].host
               /\ t.verified => users'[t.sub].verified
    <2>1. CASE t \in tokens
      BY <2>1 DEF TokensHonest, Grows, Known
    <2>2. CASE t \notin tokens
      BY <2>2, TokensGrow DEF TokenFor, Known
    <2>. QED  BY <2>1, <2>2
  <1>. QED  BY <1>1, <1>2 DEF TokensHonest

----------------------------------------------------------------------------
(* The steps that are nobody's, and the theorems *)

LEMMA ExpireStep ==
  ASSUME Inv, NEW k \in Keys, Expire(k)
  PROVE  Inv'
  <1>. TypeOK
    BY DEF Inv
  <1>1. /\ \A j \in Keys : codes'[j] \in {codes[j], None}
        /\ \A j \in Keys \ {k} : codes'[j] = codes[j]
        /\ unlucky \subseteq unlucky'
        /\ k[1] = "verify" => k[2] \in unlucky'
        /\ UNCHANGED <<users, tokens, mailed, issued, pc, req, accepted, overlapped, kept>>
    BY DEF Expire, TypeOK
  <1>2. TypeOK'
    BY DEF Expire, TypeOK, Keys, Known
  <1>3. Codes' /\ Servers' /\ Passwords'
    BY <1>1 DEF Inv, Codes, Servers, Passwords, Known
  <1>4. Acceptances'
    BY <1>1 DEF Inv, TypeOK, Acceptances, Accepting
  <1>5. StaysVerifiable'
    <2>1. \A e \in DOMAIN users : <<"verify", e>> \in Keys
      BY DEF TypeOK, Keys, Kinds
    <2>2. \A e : k = <<"verify", e>> => e \in unlucky'
      BY <1>1
    <2>. QED  BY <1>1, <2>1, <2>2 DEF Inv, StaysVerifiable
  <1>6. CodeReuseExplained' /\ CredentialsExplained' /\ TokensHonest'
    BY <1>1 DEF Inv, CodeReuseExplained, CredentialsExplained, TokensHonest, Known
  <1>. QED  BY <1>2, <1>3, <1>4, <1>5, <1>6 DEF Inv

\* Login and RefreshToken.
LEMMA SignStep ==
  ASSUME Inv, NEW e \in DOMAIN users, Sign(e, users[e]),
         UNCHANGED <<users, redis, pc, req, history>>
  PROVE  Inv'
  <1>1. TokenFor(e, users[e]) \in Token
    BY TokenTyped DEF Inv, TypeOK
  <1>2. TypeOK'
    BY <1>1 DEF Inv, TypeOK, Sign, redis, history, Known
  <1>3. TokensHonest'
    BY DEF Inv, TokensHonest, Sign, TokenFor, Known
  <1>. QED
    BY <1>2, <1>3 DEF Inv, Servers, Codes, Acceptances, Accepting, Passwords, StaysVerifiable,
         CodeReuseExplained, CredentialsExplained, redis, history, Known

LEMMA VerifyHostStep ==
  ASSUME Inv, NEW e \in Emails, VerifyHost(e)
  PROVE  Inv'
  <1>. TypeOK /\ users[e] \in User /\ e \in DOMAIN users
    BY DEF Inv, TypeOK, VerifyHost, Known
  <1>. DEFINE row == [users[e] EXCEPT !.profile = "identified"]
  <1>1. /\ row \in User /\ row.password = users[e].password /\ row.host = users[e].host
        /\ row.verified = users[e].verified /\ row.emailVerified = users[e].emailVerified
        /\ row.profile # None
    BY DEF User, None
  <1>2. /\ users' = [users EXCEPT ![e] = row] /\ users[e].profile # None
        /\ UNCHANGED <<redis, tokens, pc, req, history>>
    BY DEF VerifyHost
  <1>. HIDE DEF row
  <1>3. /\ DOMAIN users' = DOMAIN users /\ users'[e] = row
        /\ \A f \in DOMAIN users \ {e} : users'[f] = users[f]
    BY <1>2 DEF TypeOK
  <1>4. TypeOK'
    BY <1>1, <1>2, <1>3 DEF TypeOK, redis, history, Known
  <1>5. /\ \A f \in DOMAIN users : /\ users'[f].password = users[f].password
                                   /\ users'[f].host = users[f].host
                                   /\ users'[f].verified = users[f].verified
                                   /\ users'[f].emailVerified = users[f].emailVerified
                                   /\ users'[f].profile # None <=> users[f].profile # None
    BY <1>1, <1>2, <1>3
  <1>6. Servers' /\ Codes' /\ Acceptances' /\ Passwords'
    BY <1>2, <1>3, <1>5 DEF Inv, Servers, Codes, Acceptances, Accepting, Passwords, redis,
         history, Known
  <1>7. StaysVerifiable' /\ CodeReuseExplained' /\ CredentialsExplained'
    BY <1>2, <1>3, <1>5 DEF Inv, StaysVerifiable, CodeReuseExplained, CredentialsExplained,
         redis, history, Known
  <1>8. TokensHonest'
    BY <1>2, <1>3, <1>5 DEF Inv, TokensHonest, Known
  <1>. QED  BY <1>4, <1>6, <1>7, <1>8 DEF Inv

\* The conjunction is inductive.
THEOREM InvInductive == Inv /\ [Next]_vars => Inv'
  <1>. SUFFICES ASSUME Inv, [Next]_vars  PROVE Inv'
    OBVIOUS
  <1>1. ASSUME NEW p \in Requests, Step(p)  PROVE Inv'
    <2>1. RowsOK' /\ RestOK'
      BY <1>1, UsersGrow, RestStep
    <2>2. TypeOK'
      BY <2>1 DEF TypeOK, RowsOK, RestOK
    <2>. QED
      BY <1>1, <2>2, ServersStep, CodesStep, AcceptancesStep, PasswordsStep, VerifiableStep,
         CodeReuseStep, CredentialsStep, TokensStep DEF Inv
  <1>2. ASSUME NEW e \in Emails, Login(e)  PROVE Inv'
    BY <1>2, SignStep DEF Login, Known
  <1>3. ASSUME NEW t \in tokens, RefreshToken(t)  PROVE Inv'
    BY <1>3, SignStep DEF RefreshToken, Known
  <1>4. CASE UNCHANGED vars
    BY <1>4 DEF vars, redis, history, Inv, TypeOK, Servers, Codes, Acceptances, Accepting,
         Passwords, StaysVerifiable, CodeReuseExplained, CredentialsExplained, TokensHonest,
         Known
  <1>. QED  BY <1>1, <1>2, <1>3, <1>4, ExpireStep, VerifyHostStep DEF Next

THEOREM InvHolds == Spec => []Inv
  BY InvInit, InvInductive, PTL DEF Spec

\* Rows, codes and handlers have their types, for any requests and addresses.
THEOREM TypesHold == Spec => []TypeOK
  <1>1. Inv => TypeOK
    BY DEF Inv
  <1>. QED  BY <1>1, InvHolds, PTL

\* Registration (auth.service.ts) leaves its user a code to verify with, unless
\* one was lost or expired; no other statement of any handler takes it away.
THEOREM VerifiableHolds == Spec => []StaysVerifiable
  <1>1. Inv => StaysVerifiable
    BY DEF Inv
  <1>. QED  BY <1>1, InvHolds, PTL

\* Verification and password reset use a code twice only when they overlap, or
\* when Redis did not delete it.
THEOREM CodeReuseHolds == Spec => []CodeReuseExplained
  <1>1. Inv => CodeReuseExplained
    BY DEF Inv
  <1>. QED  BY <1>1, InvHolds, PTL

\* What marks an address as verified, and what gives a user a password.
THEOREM CredentialsHold == Spec => []CredentialsExplained
  <1>1. Inv => CredentialsExplained
    BY DEF Inv
  <1>. QED  BY <1>1, InvHolds, PTL

\* A token says nothing of its user that is not true any more, and becomeHost
\* and onboardHost never make a host without a profile.
THEOREM TokensHold == Spec => []TokensHonest
  <1>1. Inv => TokensHonest
    BY DEF Inv
  <1>. QED  BY <1>1, InvHolds, PTL
=============================================================================
