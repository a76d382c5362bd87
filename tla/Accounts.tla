------------------------------ MODULE Accounts ------------------------------
(***************************************************************************)
(* The account of one e-mail address (auth.service.ts, users.service.ts):  *)
(* registration, the sign-in with Google, the verification of the address, *)
(* the reset of the password, the links mailed for both, and the sign-in   *)
(* with the password.  What a sign-in yields is in Sessions.  Addresses of *)
(* different users share nothing, so one is enough.                        *)
(*                                                                         *)
(* No request runs in a transaction: every statement that writes, and the  *)
(* mail, is a step, and requests interleave.  Reads that follow each other *)
(* are one step with the checks made on them; a request refused there has  *)
(* no effect and is left out.  A link presented is one that was mailed.  A *)
(* password is named by the call that chose it.  A call is used once.      *)
(***************************************************************************)
EXTENDS Integers

CONSTANTS
  Call,         \* requests: bounds how many are made
  NumTokens,    \* bound on the links issued
  OldPassword,  \* the password of an account that was there before
  NoPassword, NoAccount, NoToken

Token == 1 .. NumTokens

ASSUME NumTokensAssumption  == NumTokens \in Nat
ASSUME NoTokenAssumption    == NoToken \notin Token
Password == Call \cup {OldPassword}
Account ==
  [provider : {"local"}, verified : BOOLEAN, password : Password]
    \cup [provider : {"google"}, verified : {TRUE}, password : Password \cup {NoPassword}]

ASSUME NoPasswordAssumption == NoPassword \notin Password
ASSUME NoAccountAssumption  == NoAccount \notin Account

VARIABLES
  account,   \* the row of users, or NoAccount
  kind,      \* of a token: "none" (not issued), "verification" or "reset"
  stored,    \* whether its row is there
  used,      \* its column used
  expired,   \* whether its expires_at has passed
  mailed,    \* whether its link reached the owner of the address
  usedUp,    \* history: which call, a resend, used up which links
  op, pc,    \* what a call does, and its next step
  alive,     \* whether it goes on
  token,     \* the token it issues or was made with
  loaded,    \* the user it read with that token
  earlier    \* history: the calls that had been answered when it began

tokenVars == <<kind, stored, used, expired, mailed, usedUp>>
callVars  == <<op, pc, alive, token, loaded, earlier>>
vars == <<account, tokenVars, callVars>>

Local(p, v) == [provider |-> "local", verified |-> v, password |-> p]
Google == [provider |-> "google", verified |-> TRUE, password |-> NoPassword]

\* Nobody has the address yet, or somebody registered it some time ago and
\* may still have the link.
Init ==
  /\ account \in {NoAccount, Local(OldPassword, FALSE), Google}
  /\ \E links \in SUBSET {t \in Token : t = 1 /\ account = Local(OldPassword, FALSE)} :
       /\ kind = [t \in Token |-> IF t \in links THEN "verification" ELSE "none"]
       /\ stored = [t \in Token |-> t \in links]
       /\ mailed = [t \in Token |-> t \in links]
  /\ used = [t \in Token |-> FALSE]
  /\ expired = [t \in Token |-> FALSE]
  /\ usedUp = {}
  /\ op = [c \in Call |-> "none"]
  /\ pc = [c \in Call |-> "unused"]
  /\ alive = [c \in Call |-> FALSE]
  /\ token = [c \in Call |-> NoToken]
  /\ loaded = [c \in Call |-> NoAccount]
  /\ earlier = [c \in Call |-> {}]

-----------------------------------------------------------------------------
Answered == {c \in Call : pc[c] = "ok"}

Begin(c, o, step, t) ==
  /\ pc[c] = "unused"
  /\ op' = [op EXCEPT ![c] = o]
  /\ pc' = [pc EXCEPT ![c] = step]
  /\ alive' = [alive EXCEPT ![c] = TRUE]
  /\ token' = [token EXCEPT ![c] = t]
  /\ loaded' = [loaded EXCEPT ![c] = IF t = NoToken THEN NoAccount ELSE account]
  /\ earlier' = [earlier EXCEPT ![c] = Answered]

At(c, step) == alive[c] /\ pc[c] = step
Goto(c, step) ==
  /\ pc' = [pc EXCEPT ![c] = step]
  /\ UNCHANGED <<op, alive, loaded, earlier>>

\* register(): no user has the address.
Register(c) ==
  /\ account = NoAccount
  /\ Begin(c, "register", "createUser", NoToken)
  /\ UNCHANGED <<account, tokenVars>>

\* googleLogin(): a new user, or one who signed in with Google before.
GoogleLogin(c) ==
  /\ \/ account = NoAccount /\ Begin(c, "google", "createUser", NoToken)
     \/ /\ account # NoAccount
        /\ account.provider = "google"
        /\ Begin(c, "google", "signIn", NoToken)
  /\ UNCHANGED <<account, tokenVars>>

\* login(): the password matches and the address is verified.
MayLogIn == account # NoAccount /\ account.password # NoPassword
MayLogInVerified == MayLogIn /\ account.verified

Login(c) ==
  /\ MayLogInVerified
  /\ Begin(c, "login", "signIn", NoToken)
  /\ UNCHANGED <<account, tokenVars>>

\* resendVerification(): a user who is not verified.
ResendVerification(c) ==
  /\ account # NoAccount
  /\ ~account.verified
  /\ Begin(c, "resend", "useUp", NoToken)
  /\ UNCHANGED <<account, tokenVars>>

\* forgotPassword().
ForgotPassword(c) ==
  /\ account # NoAccount
  /\ Begin(c, "forgot", "saveToken", NoToken)
  /\ UNCHANGED <<account, tokenVars>>

\* verifyEmail() and resetPassword(): the row of the link is read with its
\* user, and is neither used nor expired.
Usable(t) == stored[t] /\ ~used[t] /\ ~expired[t]

\* The order of their two writes, and the opposite one.
MarkFirst   == <<"markUsed", "update">>
UpdateFirst == <<"update", "markUsed">>
Following(step) == IF step = UpdateFirst[1] THEN UpdateFirst[2] ELSE "ok"

VerifyEmail(c, t) ==
  /\ kind[t] = "verification" /\ mailed[t] /\ Usable(t)
  /\ Begin(c, "verify", UpdateFirst[1], t)
  /\ UNCHANGED <<account, tokenVars>>

ResetPassword(c, t) ==
  /\ kind[t] = "reset" /\ mailed[t] /\ Usable(t)
  /\ Begin(c, "reset", UpdateFirst[1], t)
  /\ UNCHANGED <<account, tokenVars>>

-----------------------------------------------------------------------------
(* The statements.                                                         *)

\* The unique index of users.email, and the table without it.
AnyEmail  == TRUE
EmailFree == account = NoAccount

CreateUser(c) ==
  /\ At(c, "createUser")
  /\ IF EmailFree
     THEN /\ account' = IF op[c] = "register" THEN Local(c, FALSE) ELSE Google
          /\ Goto(c, IF op[c] = "register" THEN "saveToken" ELSE "signIn")
     ELSE Goto(c, "failed") /\ UNCHANGED account
  /\ UNCHANGED <<tokenVars, token>>

\* The unused verification links of the user are used up.
Pending == {t \in Token : kind[t] = "verification" /\ stored[t] /\ ~used[t]}

UseUp(c) ==
  /\ At(c, "useUp")
  /\ used' = [t \in Token |-> used[t] \/ t \in Pending]
  /\ usedUp' = usedUp \cup {c} \X Pending
  /\ Goto(c, "saveToken")
  /\ UNCHANGED <<account, kind, stored, expired, mailed, token>>

\* The row of a new link.
SaveToken(c, t) ==
  /\ At(c, "saveToken")
  /\ kind[t] = "none"
  /\ \A s \in Token : s < t => kind[s] # "none"
  /\ kind' = [kind EXCEPT ![t] = IF op[c] = "forgot" THEN "reset" ELSE "verification"]
  /\ stored' = [stored EXCEPT ![t] = TRUE]
  /\ token' = [token EXCEPT ![c] = t]
  /\ Goto(c, "sendMail")
  /\ UNCHANGED <<account, used, expired, mailed, usedUp>>

SendMail(c) ==
  /\ At(c, "sendMail")
  /\ mailed' = [mailed EXCEPT ![token[c]] = TRUE]
  /\ Goto(c, "ok")
  /\ UNCHANGED <<account, kind, stored, used, expired, usedUp, token>>

\* The one column named is written.  The variants lose the hash, and save the
\* user as it was read.
WithNoHash(user, c) ==
  IF op[c] = "verify" THEN [user EXCEPT !.verified = TRUE]
                      ELSE [user EXCEPT !.password = NoPassword]
With(user, c) ==
  IF op[c] = "verify" THEN [user EXCEPT !.verified = TRUE]
                      ELSE [user EXCEPT !.password = c]
WholeUser(c)   == With(loaded[c], c)
NamedColumn(c) == With(account, c)

UpdateUser(c) ==
  /\ At(c, "update")
  /\ account' = NamedColumn(c)
  /\ Goto(c, Following("update"))
  /\ UNCHANGED <<tokenVars, token>>

\* save: used is set or, when the row was cleaned up meanwhile, the row is
\* inserted again with it.  The variant forgets to set it.
FlagForgotten(t) == used[t]
Flagged(t)       == TRUE

MarkUsed(c) ==
  /\ At(c, "markUsed")
  /\ stored' = [stored EXCEPT ![token[c]] = TRUE]
  /\ used' = [used EXCEPT ![token[c]] = Flagged(token[c])]
  /\ Goto(c, Following("markUsed"))
  /\ UNCHANGED <<account, kind, expired, mailed, usedUp, token>>

\* The session itself is in Sessions.
SignIn(c) ==
  /\ At(c, "signIn")
  /\ Goto(c, "ok")
  /\ UNCHANGED <<account, tokenVars, token>>

\* The server stops, a statement throws, or the mail is not accepted.
Stop(c) ==
  /\ alive[c]
  /\ pc[c] \notin {"ok", "failed"}
  /\ alive' = [alive EXCEPT ![c] = FALSE]
  /\ UNCHANGED <<account, tokenVars, op, pc, token, loaded, earlier>>

-----------------------------------------------------------------------------
\* Links of one kind live equally long: they expire in the order of issue.
Expire(t) ==
  /\ kind[t] # "none"
  /\ ~expired[t]
  /\ \A s \in Token : s < t /\ kind[s] = kind[t] => expired[s]
  /\ expired' = [expired EXCEPT ![t] = TRUE]
  /\ UNCHANGED <<account, kind, stored, used, mailed, usedUp, callVars>>

\* Every night, the rows of reset links that have expired.
CleanupExpiredTokens ==
  /\ \E t \in Token : kind[t] = "reset" /\ stored[t] /\ expired[t]
  /\ stored' = [t \in Token |-> stored[t] /\ ~(kind[t] = "reset" /\ expired[t])]
  /\ UNCHANGED <<account, kind, used, expired, mailed, usedUp, callVars>>

-----------------------------------------------------------------------------
Receive(c) ==
  \/ Register(c) \/ GoogleLogin(c) \/ Login(c)
  \/ ResendVerification(c) \/ ForgotPassword(c)
  \/ \E t \in Token : VerifyEmail(c, t) \/ ResetPassword(c, t)

Perform(c) ==
  \/ CreateUser(c) \/ UseUp(c) \/ SendMail(c) \/ UpdateUser(c) \/ MarkUsed(c)
  \/ SignIn(c) \/ \E t \in Token : SaveToken(c, t)

Next ==
  \/ \E c \in Call : Receive(c) \/ Perform(c) \/ Stop(c)
  \/ \E t \in Token : Expire(t)
  \/ CleanupExpiredTokens

Spec == Init /\ [][Next]_vars

-----------------------------------------------------------------------------
(* Properties.                                                             *)

\* Every variable has its type; only an account of Google is without a password.
TypeOK ==
  /\ account \in Account \cup {NoAccount}
  /\ kind \in [Token -> {"none", "verification", "reset"}]
  /\ stored \in [Token -> BOOLEAN]
  /\ used \in [Token -> BOOLEAN]
  /\ expired \in [Token -> BOOLEAN]
  /\ mailed \in [Token -> BOOLEAN]
  /\ usedUp \subseteq Call \X Token
  /\ op \in [Call -> {"none", "register", "google", "login", "resend", "forgot",
                      "verify", "reset"}]
  /\ pc \in [Call -> {"unused", "createUser", "signIn", "useUp", "saveToken",
                      "sendMail", "update", "markUsed", "ok", "failed"}]
  /\ alive \in [Call -> BOOLEAN]
  /\ token \in [Call -> Token \cup {NoToken}]
  /\ loaded \in [Call -> Account \cup {NoAccount}]
  /\ earlier \in [Call -> SUBSET Call]

\* A link is not used up for nothing, wherever calls interleave or are cut off:
\* a used reset link has set a password; a used verification link has verified
\* the address or given way to a newer link, whose row is there.  There is one
\* exception, which the code makes: the resend that used up this very link has
\* not stored the newer one yet, or was cut off before it did.
Updated(c) == pc[c] \in {"markUsed", "ok"}
GaveWay(t) == \E s \in Token : s > t /\ kind[s] = "verification" /\ stored[s]
BetweenLinks(c, t) ==
  op[c] = "resend" /\ pc[c] = "saveToken" /\ <<c, t>> \in usedUp
UsedMeansDone ==
  \A t \in Token : used[t] =>
    IF kind[t] = "reset"
    THEN \E c \in Call : op[c] = "reset" /\ token[c] = t /\ Updated(c)
    ELSE account.verified \/ GaveWay(t) \/ \E c \in Call : BetweenLinks(c, t)

\* "Reset token has already been used": once a call with a link has been
\* answered, a later call with it is refused, whatever clean-up and other
\* calls do to its row.
LinkWorksOnce ==
  \A c \in Call : \A d \in earlier[c] :
    op[c] \in {"verify", "reset"} /\ op[d] = op[c] => token[c] # token[d]

\* Two first requests for an address, and updates of a user that overlap,
\* never take anything back: an account stays, keeps its provider, and is
\* verified for good.
AccountKeeps ==
  [][account # NoAccount =>
       /\ account' # NoAccount
       /\ account'.provider = account.provider
       /\ account.verified => account'.verified]_vars

\* After a reset was answered the password is the one it set, or one of a call
\* that was not answered before it: no write of another call brings an older
\* one back.
PasswordIsCurrent ==
  \A c \in Answered : op[c] = "reset" =>
    account.password \in Call \ earlier[c]

\* A sign-in to an account with a password needs a link that was mailed to the
\* address and opened, or Google.
OnlyOwnersSignIn ==
  \A c \in Call : op[c] \in {"login", "google"} /\ pc[c] \in {"signIn", "ok"} =>
    \/ account.provider = "google"
    \/ op[c] = "login" /\ \E v \in Call : op[v] = "verify" /\ Updated(v)
=============================================================================
