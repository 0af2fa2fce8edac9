------------------------------ MODULE Accounts ------------------------------
(***************************************************************************)
(* Accounts (src/auth): registration, one-time codes, passwords, tokens    *)
(* and hosts.                                                              *)
(*                                                                         *)
(* Codes live in Redis under a key for what they are for and the address   *)
(* they were mailed to.  RedisService swallows every error: a code may not *)
(* be stored, not be found or not be deleted, and no caller is told.  It   *)
(* may expire at any time.                                                 *)
(*                                                                         *)
(* Each member of Requests is one HTTP request, taken up with its first    *)
(* statement, before which it reads nothing.  A code, and a password, is   *)
(* named after the request that makes it; two draws of a code of six       *)
(* digits are taken to differ.                                             *)
(***************************************************************************)
CONSTANTS
  Requests,    \* the HTTP requests served
  Emails       \* addresses; a user is known by one

VARIABLES
  users,       \* the rows, a function on the addresses registered so far
  codes,       \* Redis: the code stored under a key, "none" if there is none
  tokens,      \* the tokens signed, access and refresh
  mailed,      \* codes that have reached the mailbox of their address
  pc,          \* the statement a handler awaits next
  req,         \* the request a handler serves
  \* History, read by no handler:
  issued,      \* <<code, key>> for every code made
  accepted,    \* the code that a handler has compared and accepted
  overlapped,  \* handlers that accepted a code that another, still at work,
               \* had accepted
  kept,        \* codes whose deletion was swallowed, or not reached
  unlucky      \* addresses whose verification code was not stored, not
               \* mailed, or expired, and those whose registration stopped

redis   == <<codes, mailed, issued>>
history == <<accepted, overlapped, kept, unlucky>>
vars == <<users, redis, tokens, pc, req, history>>

----------------------------------------------------------------------------

None  == "none"
ASSUME NoneAssumption == None \notin Requests

Kinds == {"verify", "reset"}
Keys  == Kinds \X Emails

\* isVerified, isEmailVerified, isHost, and the profile of a host with its
\* isIdentityVerified.
User  == [password: Requests, verified: BOOLEAN, emailVerified: BOOLEAN,
          host: BOOLEAN, profile: {None, "plain", "identified"}]
\* What a token claims of the user it is for.
Token == [sub: Emails, host: BOOLEAN, verified: BOOLEAN]

\* verify and reset use a code; becomeHost and onboard make a host.
Request == [op: {"register", "forgot", "becomeHost", "onboard"} \cup Kinds,
            email: Emails]
NoRequest == [op |-> None]

AwaitPc == {"createUser", "storeCode", "updateUser", "deleteCode", "createHost",
            "makeHost"}

Init ==
  /\ users = [e \in {} |-> NoRequest]
  /\ codes = [k \in Keys |-> None]
  /\ tokens = {} /\ mailed = {} /\ issued = {}
  /\ pc = [p \in Requests |-> "idle"]
  /\ req = [p \in Requests |-> NoRequest]
  /\ accepted = [p \in Requests |-> None]
  /\ overlapped = {} /\ kept = {} /\ unlucky = {}

Known(e) == e \in DOMAIN users
WithUser(e, row) == [f \in DOMAIN users \cup {e} |-> IF f = e THEN row ELSE users[f]]

Begin(p, op, e, first) ==
  /\ pc[p] = "idle"
  /\ pc' = [pc EXCEPT ![p] = first]
  /\ req' = [req EXCEPT ![p] = [op |-> op, email |-> e]]

Goto(p, next) == pc' = [pc EXCEPT ![p] = next] /\ UNCHANGED req

End(p, how) ==
  /\ pc' = [pc EXCEPT ![p] = how]
  /\ req' = [req EXCEPT ![p] = NoRequest]

Finish(p) == End(p, "done")

\* A handler that ends without its last step leaves what the history names.
Throw(p) ==
  /\ End(p, "failed")
  /\ kept' = IF pc[p] \in {"updateUser", "deleteCode"}
             THEN kept \cup {accepted[p]} ELSE kept
  /\ unlucky' = IF pc[p] = "storeCode" /\ req[p].op = "register"
                THEN unlucky \cup {req[p].email} ELSE unlucky
  /\ UNCHANGED <<users, redis, tokens, accepted, overlapped>>

----------------------------------------------------------------------------
(* register and forgotPassword make a code *)

Register(p, e) ==
  /\ ~Known(e)
  /\ Begin(p, "register", e, "createUser")
  /\ UNCHANGED <<users, redis, tokens, history>>

\* The unique index on email has the last word.
CreateUser(p) ==
  LET e == req[p].email
  IN  /\ pc[p] = "createUser"
      /\ \/ /\ ~Known(e)
            /\ users' = WithUser(e, [password |-> p, verified |-> FALSE,
                 emailVerified |-> FALSE, host |-> FALSE, profile |-> None])
            /\ Goto(p, "storeCode")
            /\ UNCHANGED <<redis, tokens, history>>
         \/ Known(e) /\ Throw(p)

\* Mutant of ForgotPassword: anyone gets a code.
ForgotAnyone(p, e) ==
  /\ Begin(p, "forgot", e, "storeCode")
  /\ UNCHANGED <<users, redis, tokens, history>>

\* An address that is not known is answered the same, without a code.
ForgotPassword(p, e) ==
  /\ Known(e)
  /\ Begin(p, "forgot", e, "storeCode")
  /\ UNCHANGED <<users, redis, tokens, history>>

\* Mutant of Key: one key an address, whatever the code is for.
OneKey(kind, e) == <<"verify", e>>

\* verify_email:<email> and reset_password:<email>
Key(kind, e) == <<kind, e>>

\* redis.set with an expiry, and the mail that nobody waits for.
StoreCode(p) ==
  LET e == req[p].email
      kind == IF req[p].op = "register" THEN "verify" ELSE "reset"
  IN  /\ pc[p] = "storeCode"
      /\ \E stored, sent \in BOOLEAN :
           /\ codes' = IF stored THEN [codes EXCEPT ![Key(kind, e)] = p] ELSE codes
           /\ mailed' = IF sent THEN mailed \cup {p} ELSE mailed
           /\ unlucky' = IF kind = "verify" /\ ~(stored /\ sent)
                         THEN unlucky \cup {e} ELSE unlucky
      /\ issued' = issued \cup {<<p, <<kind, e>>>>}
      /\ Finish(p)
      /\ UNCHANGED <<users, tokens, accepted, overlapped, kept>>

Expire(k) ==
  /\ codes[k] # None
  /\ codes' = [codes EXCEPT ![k] = None]
  /\ unlucky' = IF k[1] = "verify" THEN unlucky \cup {k[2]} ELSE unlucky
  /\ UNCHANGED <<users, tokens, mailed, issued, pc, req, accepted, overlapped, kept>>

----------------------------------------------------------------------------
(* verifyEmail and resetPassword use one *)

\* redis.get, and the comparison with the code of the request; an error is
\* taken for no code.
GetCode(p, kind, e, otp) ==
  LET others == {q \in Requests \ {p} : accepted[q] = otp /\ pc[q] \in AwaitPc}
  IN  \/ /\ codes[Key(kind, e)] = otp
         /\ Begin(p, kind, e, "updateUser")
         /\ accepted' = [accepted EXCEPT ![p] = otp]
         /\ overlapped' = IF others = {} THEN overlapped ELSE overlapped \cup {p}
         /\ UNCHANGED <<users, redis, tokens, kept, unlucky>>
      \/ /\ Begin(p, kind, e, "failed")
         /\ UNCHANGED <<users, redis, tokens, history>>

UpdateUser(p) ==
  LET e == req[p].email
  IN  /\ pc[p] = "updateUser"
      /\ Known(e)
      /\ users' = IF req[p].op = "verify"
                  THEN [users EXCEPT ![e].verified = TRUE, ![e].emailVerified = TRUE]
                  ELSE [users EXCEPT ![e].password = p]
      /\ Goto(p, "deleteCode")
      /\ UNCHANGED <<redis, tokens, history>>

\* Mutant of DeleteCode: the code stays until it expires.
KeepCode(p) ==
  /\ pc[p] = "deleteCode"
  /\ Finish(p)
  /\ UNCHANGED <<users, redis, tokens, history>>

\* Mutant of DeleteCode: the codes for both purposes go.
DeleteBoth(p) ==
  /\ pc[p] = "deleteCode"
  /\ codes' = [k \in Keys |-> IF k[2] = req[p].email THEN None ELSE codes[k]]
  /\ Finish(p)
  /\ UNCHANGED <<users, tokens, mailed, issued, history>>

\* redis.del of the key, whatever code it holds by now, or an error swallowed.
DeleteCode(p) ==
  /\ pc[p] = "deleteCode"
  /\ \/ /\ codes' = [codes EXCEPT ![Key(req[p].op, req[p].email)] = None]
        /\ UNCHANGED kept
     \/ kept' = kept \cup {accepted[p]} /\ UNCHANGED codes
  /\ Finish(p)
  /\ UNCHANGED <<users, tokens, mailed, issued, accepted, overlapped, unlucky>>

----------------------------------------------------------------------------
(* Tokens and hosts *)

TokenFor(e, row) == [sub |-> e, host |-> row.host, verified |-> row.verified]
Sign(e, row) == tokens' = tokens \cup {TokenFor(e, row)}

\* Onboarding answers with a token, if its listing is inserted (module Listings).
Welcome(e, row) == Sign(e, row) \/ UNCHANGED tokens

\* Whoever knows the password (validateUser) has a token for what the row says.
Login(e) ==
  /\ Known(e)
  /\ Sign(e, users[e])
  /\ UNCHANGED <<users, redis, pc, req, history>>

RefreshToken(t) ==
  /\ Known(t.sub)
  /\ Sign(t.sub, users[t.sub])
  /\ UNCHANGED <<users, redis, pc, req, history>>

\* becomeHost with a token, and onboardHost with one or with the password.
FindUser(p, op, e) ==
  /\ Known(e)
  /\ op = "becomeHost" => \E t \in tokens : t.sub = e
  /\ \/ /\ ~users[e].host
        /\ Begin(p, op, e, "makeHost")
        /\ UNCHANGED <<users, redis, tokens, history>>
     \/ /\ users[e].host
        /\ Begin(p, op, e, "done")
        /\ IF op = "onboard" THEN Welcome(e, users[e]) ELSE UNCHANGED tokens
        /\ UNCHANGED <<users, redis, history>>

\* Mutant of MakeHost: the user becomes a host and the profile is left out.
MakeHostOnly(p) ==
  LET e == req[p].email
      row == [users[e] EXCEPT !.host = TRUE]
  IN  /\ pc[p] = "makeHost"
      /\ users' = [users EXCEPT ![e] = row]
      /\ IF req[p].op = "onboard" THEN Welcome(e, row) ELSE UNCHANGED tokens
      /\ Finish(p)
      /\ UNCHANGED <<redis, history>>

\* The nested create fails, and the update with it, if there is a profile.
MakeHost(p) ==
  LET e == req[p].email
      row == [users[e] EXCEPT !.host = TRUE, !.profile = "plain"]
  IN  /\ pc[p] = "makeHost"
      /\ \/ /\ users[e].profile = None
            /\ users' = [users EXCEPT ![e] = row]
            /\ IF req[p].op = "onboard" THEN Welcome(e, row) ELSE UNCHANGED tokens
            /\ Finish(p)
            /\ UNCHANGED <<redis, history>>
         \/ users[e].profile # None /\ Throw(p)

\* Onboarding of an address that is not known makes a verified user, whose
\* address nobody has verified.
OnboardNew(p, e) ==
  /\ ~Known(e)
  /\ Begin(p, "onboard", e, "createHost")
  /\ UNCHANGED <<users, redis, tokens, history>>

CreateHost(p) ==
  LET e == req[p].email
      row == [password |-> p, verified |-> TRUE, emailVerified |-> FALSE,
              host |-> TRUE, profile |-> "plain"]
  IN  /\ pc[p] = "createHost"
      /\ \/ /\ ~Known(e)
            /\ users' = WithUser(e, row)
            /\ Welcome(e, row)
            /\ Finish(p)
            /\ UNCHANGED <<redis, history>>
         \/ Known(e) /\ Throw(p)

\* The admin's verifyHost; no profile is ever deleted.
VerifyHost(e) ==
  /\ Known(e)
  /\ users[e].profile # None
  /\ users' = [users EXCEPT ![e].profile = "identified"]
  /\ UNCHANGED <<redis, tokens, pc, req, history>>

\* The awaited statement fails, or the instance dies.
Crash(p) == pc[p] \in AwaitPc /\ Throw(p)

----------------------------------------------------------------------------

Step(p) ==
  \/ \E e \in Emails : \/ Register(p, e) \/ ForgotPassword(p, e) \/ OnboardNew(p, e)
                       \/ \E op \in {"becomeHost", "onboard"} : FindUser(p, op, e)
                       \/ \E kind \in Kinds, otp \in mailed : GetCode(p, kind, e, otp)
  \/ CreateUser(p) \/ StoreCode(p) \/ UpdateUser(p) \/ DeleteCode(p)
  \/ MakeHost(p) \/ CreateHost(p) \/ Crash(p)

Next ==
  \/ \E p \in Requests : Step(p)
  \/ \E k \in Keys : Expire(k)
  \/ \E e \in Emails : Login(e) \/ VerifyHost(e)
  \/ \E t \in tokens : RefreshToken(t)

Spec == Init /\ [][Next]_vars

----------------------------------------------------------------------------
(* Properties *)

\* Rows, codes and handlers have their types; who updates a user has found it.
TypeOK ==
  /\ DOMAIN users \subseteq Emails
  /\ users \in [DOMAIN users -> User]
  /\ codes \in [Keys -> Requests \cup {None}]
  /\ tokens \subseteq Token
  /\ mailed \subseteq Requests
  /\ issued \subseteq Requests \X Keys
  /\ pc \in [Requests -> AwaitPc \cup {"idle", "done", "failed"}]
  /\ req \in [Requests -> Request \cup {NoRequest}]
  /\ accepted \in [Requests -> Requests \cup {None}]
  /\ overlapped \subseteq Requests
  /\ kept \subseteq Requests \cup {None}
  /\ unlucky \subseteq Emails
  /\ \A p \in Requests :
       /\ pc[p] \in AwaitPc => req[p] \in Request
       /\ pc[p] \in {"storeCode", "updateUser", "makeHost"} => Known(req[p].email)

\* Nothing makes a second verification code: a user who registered and has not
\* verified the address has the code of the registration, stored and in the
\* mailbox, or else one was lost on the way, or expired, and the user never can.
\* (Onboarding makes users without a code.)
StaysVerifiable ==
  \A e \in DOMAIN users :
    ~users[e].verified =>
      \/ codes[<<"verify", e>>] \in mailed
      \/ e \in unlucky
      \/ \E p \in Requests : pc[p] = "storeCode" /\ req[p] = [op |-> "register", email |-> e]

\* A code is accepted from two requests only if one was at work when the other
\* came, or the code was not deleted.
CodeReuseExplained ==
  \A p, q \in Requests :
    /\ p # q
    /\ accepted[p] = accepted[q]
    /\ accepted[p] # None
    => {p, q} \cap overlapped # {} \/ accepted[p] \in kept

\* An address is verified only with a code made for it by its registration, a
\* user otherwise verified has onboarded, and a password was given at one of
\* these or with a code made for the address by forgotPassword.
CredentialsExplained ==
  \A e \in DOMAIN users :
    LET user == users[e]
        Used(kind, p) == <<accepted[p], <<kind, e>>>> \in issued
    IN  /\ user.emailVerified => \E p \in Requests : Used("verify", p)
        /\ accepted[user.password] # None => Used("reset", user.password)

\* A host has a profile, and what a token claims of its user is still true.
TokensHonest ==
  /\ \A e \in DOMAIN users : users[e].host <=> users[e].profile # None
  /\ \A t \in tokens :
       /\ Known(t.sub)
       /\ t.host => users[t.sub].host
       /\ t.verified => users[t.sub].verified
=============================================================================
