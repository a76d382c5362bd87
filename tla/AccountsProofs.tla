--------------------------- MODULE AccountsProofs ---------------------------
(***************************************************************************)
(* Proofs about Accounts, for every set of calls and every number of       *)
(* links.  The invariant says what a call may rely on when it goes on: the *)
(* account it began with is still there, the link it presents or issues is *)
(* of the kind it needs, and what calls that were answered did lasts.      *)
(***************************************************************************)
EXTENDS Accounts, TLAPS

\* The steps of each request.
CallFits(c) ==
  \/ op[c] = "none"     /\ pc[c] = "unused"
  \/ op[c] = "register" /\ pc[c] \in {"createUser", "saveToken", "sendMail", "ok", "failed"}
  \/ op[c] = "google"   /\ pc[c] \in {"createUser", "signIn", "ok", "failed"}
  \/ op[c] = "login"    /\ pc[c] \in {"signIn", "ok"}
  \/ op[c] = "resend"   /\ pc[c] \in {"useUp", "saveToken", "sendMail", "ok"}
  \/ op[c] = "forgot"   /\ pc[c] \in {"saveToken", "sendMail", "ok"}
  \/ op[c] \in {"verify", "reset"} /\ pc[c] \in {"update", "markUsed", "ok"}
CallsFit == \A c \in Call : CallFits(c)

\* Only the requests that make an account begin without one, and links are
\* issued for accounts.
AccountThere ==
  /\ \A c \in Call : pc[c] \notin {"unused", "createUser", "failed"} => account # NoAccount
  /\ \A t \in Token : kind[t] # "none" => account # NoAccount

\* Nothing has happened to a link before it was issued.
NothingBeforeIssue ==
  \A t \in Token : kind[t] = "none" => ~stored[t] /\ ~used[t] /\ ~mailed[t]

\* Links are issued in order, and the row of a verification link stays.
IssuedInOrder ==
  \A s, t \in Token : s < t /\ kind[t] # "none" => kind[s] # "none"
VerificationsStay == \A t \in Token : kind[t] = "verification" => stored[t]

\* A call that has a link has one of its kind; who issues one has none yet.
LinksFit ==
  \A c \in Call :
    /\ op[c] = "verify" => token[c] \in Token /\ kind[token[c]] = "verification"
    /\ op[c] = "reset" => token[c] \in Token /\ kind[token[c]] = "reset"
    /\ pc[c] = "sendMail" => token[c] \in Token /\ kind[token[c]] # "none"
    /\ pc[c] \in {"createUser", "useUp", "saveToken"} => token[c] = NoToken

\* What was answered before a call began is answered.
EarlierAnswered == \A c \in Call : \A d \in earlier[c] : pc[d] = "ok" /\ d # c

\* Answered calls leave their link used up.
AnsweredUsed ==
  \A c \in Call : op[c] \in {"verify", "reset"} /\ pc[c] = "ok" => used[token[c]]

\* A write of a call is never taken back by one that had ended before it.
VerifiedLasts == \A c \in Call : op[c] = "verify" /\ Updated(c) => account.verified
PasswordLasts ==
  \A c \in Call : op[c] = "reset" /\ Updated(c) => account.password \in Call \ earlier[c]

\* An address is known to be its owner's only from a link that was opened.
VerifiedByLink ==
  account # NoAccount /\ account.provider = "local" /\ account.verified =>
    \E v \in Call : op[v] = "verify" /\ Updated(v)

\* The inductive invariant.
AccountInv ==
  /\ TypeOK
  /\ CallsFit
  /\ AccountThere
  /\ NothingBeforeIssue
  /\ IssuedInOrder
  /\ VerificationsStay
  /\ LinksFit
  /\ EarlierAnswered
  /\ AnsweredUsed
  /\ VerifiedLasts
  /\ PasswordLasts
  /\ VerifiedByLink
  /\ UsedMeansDone
  /\ LinkWorksOnce
  /\ OnlyOwnersSignIn

-----------------------------------------------------------------------------
\* verifyEmail and resetPassword write the user first.
LEMMA WriteOrder ==
  /\ UpdateFirst[1] = "update"
  /\ Following("update") = "markUsed"
  /\ Following("markUsed") = "ok"
BY DEF UpdateFirst, Following

\* The initial states satisfy the invariant.
LEMMA AccountInvInit == Init => AccountInv
<1> SUFFICES ASSUME Init
             PROVE  AccountInv
  OBVIOUS
<1>1. Local(OldPassword, FALSE) \in Account /\ Google \in Account
  <2>1. Local(OldPassword, FALSE) \in
          [provider : {"local"}, verified : BOOLEAN, password : Password]
    BY DEF Local, Password
  <2>2. Google \in
          [provider : {"google"}, verified : {TRUE}, password : Password \cup {NoPassword}]
    BY DEF Google
  <2> QED
    BY <2>1, <2>2 DEF Account
<1>2. TypeOK
  <2>1. PICK links \in SUBSET {t \in Token : t = 1 /\ account = Local(OldPassword, FALSE)} :
          /\ kind = [t \in Token |-> IF t \in links THEN "verification" ELSE "none"]
          /\ stored = [t \in Token |-> t \in links]
          /\ mailed = [t \in Token |-> t \in links]
    BY DEF Init
  <2>2. /\ kind \in [Token -> {"none", "verification", "reset"}]
        /\ stored \in [Token -> BOOLEAN] /\ mailed \in [Token -> BOOLEAN]
    BY <2>1
  <2>3. account \in Account \cup {NoAccount} /\ used \in [Token -> BOOLEAN]
        /\ expired \in [Token -> BOOLEAN] /\ usedUp \subseteq Call \X Token
    BY <1>1 DEF Init
  <2>4. /\ op = [c \in Call |-> "none"] /\ pc = [c \in Call |-> "unused"]
        /\ alive = [c \in Call |-> FALSE] /\ token = [c \in Call |-> NoToken]
        /\ loaded = [c \in Call |-> NoAccount] /\ earlier = [c \in Call |-> {}]
    BY DEF Init
  <2> QED
    BY <2>2, <2>3, <2>4 DEF TypeOK
<1>3. /\ CallsFit /\ AccountThere /\ NothingBeforeIssue /\ LinksFit /\ EarlierAnswered
      /\ IssuedInOrder /\ VerificationsStay
  <2>1. PICK links \in SUBSET {t \in Token : t = 1 /\ account = Local(OldPassword, FALSE)} :
          /\ kind = [t \in Token |-> IF t \in links THEN "verification" ELSE "none"]
          /\ stored = [t \in Token |-> t \in links]
          /\ mailed = [t \in Token |-> t \in links]
    BY DEF Init
  <2>2. \A t \in links : account # NoAccount
    BY <1>1, NoAccountAssumption
  <2>3. AccountThere /\ NothingBeforeIssue
    BY <2>1, <2>2 DEF Init, AccountThere, NothingBeforeIssue
  <2>4. CallsFit /\ LinksFit /\ EarlierAnswered
    BY DEF Init, CallsFit, CallFits, LinksFit, EarlierAnswered
  <2>5. IssuedInOrder /\ VerificationsStay
    <3>1. \A t \in Token : kind[t] # "none" => t = 1
      BY <2>1
    <3>2. \A s, t \in Token : s < t => t # 1
      BY NumTokensAssumption DEF Token
    <3>3. IssuedInOrder
      BY <3>1, <3>2 DEF IssuedInOrder
    <3>4. VerificationsStay
      BY <2>1 DEF VerificationsStay
    <3> QED
      BY <3>3, <3>4
  <2> QED
    BY <2>3, <2>4, <2>5
<1>4. AnsweredUsed /\ VerifiedLasts /\ PasswordLasts
  BY DEF Init, AnsweredUsed, VerifiedLasts, PasswordLasts, Updated
<1>5. VerifiedByLink
  BY DEF Init, VerifiedByLink, Local, Google
<1>6. UsedMeansDone /\ LinkWorksOnce /\ OnlyOwnersSignIn
  BY DEF Init, UsedMeansDone, LinkWorksOnce, OnlyOwnersSignIn
<1> QED
  BY <1>2, <1>3, <1>4, <1>5, <1>6 DEF AccountInv

-----------------------------------------------------------------------------
(* Every step is one of seven kinds: a call begins, a statement of a call  *)
(* makes the account, updates it, or leaves it alone, a call stops, or the *)
(* clean-up and the clock change a link.                                   *)

\* What a call that begins has been checked for.
Begins(c) ==
  /\ pc[c] = "unused" /\ pc'[c] # "unused" /\ op[c] = "none"
  /\ \A d \in Call : d # c =>
       pc'[d] = pc[d] /\ op'[d] = op[d] /\ token'[d] = token[d] /\ earlier'[d] = earlier[d]
  /\ earlier'[c] = Answered
  /\ CallFits(c)'
  /\ pc'[c] \notin {"ok", "markUsed", "failed", "sendMail"}
  /\ pc'[c] # "createUser" => account # NoAccount
  /\ IF op'[c] \in {"verify", "reset"}
     THEN /\ token'[c] \in Token /\ ~used[token'[c]]
          /\ kind[token'[c]] = IF op'[c] = "verify" THEN "verification" ELSE "reset"
     ELSE token'[c] = NoToken
  /\ pc'[c] = "signIn" =>
       \/ account.provider = "google"
       \/ op'[c] = "login" /\ account.provider = "local" /\ account.verified
  /\ UNCHANGED <<account, tokenVars>>

\* Receiving a request only begins a call, after these checks.
LEMMA ReceiveBegins ==
  ASSUME AccountInv, NEW c \in Call, Receive(c)
  PROVE  Begins(c) /\ TypeOK'
<1>t. TypeOK /\ CallFits(c) /\ AccountThere
  BY DEF AccountInv, CallsFit
<1>a. Answered \in SUBSET Call
  BY DEF Answered
<1>n. pc[c] = "unused" => op[c] = "none"
  BY <1>t DEF CallFits
<1>1. CASE Register(c)
  <2>1. Begin(c, "register", "createUser", NoToken) /\ UNCHANGED <<account, tokenVars>>
    BY <1>1 DEF Register
  <2> QED
    BY <1>t, <1>a, <1>n, <2>1 DEF TypeOK, Begin, Begins, CallFits, tokenVars
<1>2. CASE GoogleLogin(c)
  <2>1. CASE Begin(c, "google", "createUser", NoToken) /\ UNCHANGED <<account, tokenVars>>
    BY <1>t, <1>a, <1>n, <2>1 DEF TypeOK, Begin, Begins, CallFits, tokenVars
  <2>2. CASE /\ account # NoAccount /\ account.provider = "google"
             /\ Begin(c, "google", "signIn", NoToken) /\ UNCHANGED <<account, tokenVars>>
    BY <1>t, <1>a, <1>n, <2>2 DEF TypeOK, Begin, Begins, CallFits, tokenVars
  <2> QED
    BY <1>2, <2>1, <2>2 DEF GoogleLogin
<1>3. CASE Login(c)
  <2>1. /\ account # NoAccount /\ account.verified
        /\ Begin(c, "login", "signIn", NoToken) /\ UNCHANGED <<account, tokenVars>>
    BY <1>3 DEF Login, MayLogInVerified, MayLogIn
  <2>2. account.provider \in {"google", "local"}
    BY <1>t, <2>1 DEF TypeOK, Account
  <2> QED
    BY <1>t, <1>a, <1>n, <2>1, <2>2 DEF TypeOK, Begin, Begins, CallFits, tokenVars
<1>4. CASE ResendVerification(c)
  <2>1. /\ account # NoAccount
        /\ Begin(c, "resend", "useUp", NoToken) /\ UNCHANGED <<account, tokenVars>>
    BY <1>4 DEF ResendVerification
  <2> QED
    BY <1>t, <1>a, <1>n, <2>1 DEF TypeOK, Begin, Begins, CallFits, tokenVars
<1>5. CASE ForgotPassword(c)
  <2>1. /\ account # NoAccount
        /\ Begin(c, "forgot", "saveToken", NoToken) /\ UNCHANGED <<account, tokenVars>>
    BY <1>5 DEF ForgotPassword
  <2> QED
    BY <1>t, <1>a, <1>n, <2>1 DEF TypeOK, Begin, Begins, CallFits, tokenVars
<1>6. ASSUME NEW t \in Token, VerifyEmail(c, t)
      PROVE  Begins(c) /\ TypeOK'
  <2>1. /\ kind[t] = "verification" /\ ~used[t] /\ account # NoAccount
        /\ Begin(c, "verify", "update", t) /\ UNCHANGED <<account, tokenVars>>
    BY <1>t, <1>6, WriteOrder DEF VerifyEmail, Usable, AccountThere
  <2>2. t # NoToken
    BY NoTokenAssumption
  <2> QED
    BY <1>t, <1>a, <1>n, <2>1, <2>2 DEF TypeOK, Begin, Begins, CallFits, tokenVars
<1>7. ASSUME NEW t \in Token, ResetPassword(c, t)
      PROVE  Begins(c) /\ TypeOK'
  <2>1. /\ kind[t] = "reset" /\ ~used[t] /\ account # NoAccount
        /\ Begin(c, "reset", "update", t) /\ UNCHANGED <<account, tokenVars>>
    BY <1>t, <1>7, WriteOrder DEF ResetPassword, Usable, AccountThere
  <2>2. t # NoToken
    BY NoTokenAssumption
  <2> QED
    BY <1>t, <1>a, <1>n, <2>1, <2>2 DEF TypeOK, Begin, Begins, CallFits, tokenVars
<1> QED
  BY <1>1, <1>2, <1>3, <1>4, <1>5, <1>6, <1>7 DEF Receive

\* A call that begins keeps the invariant.
LEMMA BeginStep ==
  ASSUME AccountInv, NEW c \in Call, Begins(c), TypeOK'
  PROVE  AccountInv'
<1>i. /\ TypeOK /\ CallsFit /\ AccountThere /\ NothingBeforeIssue /\ LinksFit
      /\ IssuedInOrder /\ VerificationsStay /\ EarlierAnswered /\ AnsweredUsed /\ VerifiedLasts /\ PasswordLasts
      /\ VerifiedByLink /\ UsedMeansDone /\ LinkWorksOnce /\ OnlyOwnersSignIn
  BY DEF AccountInv
<1>o. \A d \in Call : d # c =>
        /\ pc'[d] = pc[d] /\ op'[d] = op[d] /\ token'[d] = token[d]
        /\ earlier'[d] = earlier[d]
  BY DEF Begins
<1>u. UNCHANGED <<account, kind, stored, used, mailed, usedUp>>
  BY DEF Begins, tokenVars
<1>d. pc[c] = "unused" /\ op[c] = "none"
  BY DEF Begins
<1>1. CallsFit'
  BY <1>i, <1>o DEF CallsFit, CallFits, Begins
<1>2. AccountThere' /\ NothingBeforeIssue' /\ IssuedInOrder' /\ VerificationsStay'
  BY <1>i, <1>o, <1>u
     DEF AccountThere, NothingBeforeIssue, IssuedInOrder, VerificationsStay, Begins
<1>3. LinksFit'
  BY <1>i, <1>o, <1>u DEF LinksFit, Begins, CallFits
<1>4. EarlierAnswered' /\ LinkWorksOnce'
  <2>1. \A d \in earlier'[c] : d \in Call /\ pc[d] = "ok" /\ d # c
    BY <1>d DEF Begins, Answered
  <2>2. \A d \in Call : earlier[d] \subseteq Call
    BY <1>i DEF TypeOK
  <2>3. \A d \in Call \ {c} : \A e \in earlier[d] : e # c
    BY <1>i, <1>d DEF EarlierAnswered
  <2>4. EarlierAnswered'
    BY <1>i, <1>o, <2>1, <2>2, <2>3 DEF EarlierAnswered
  <2>5. ASSUME NEW d \in earlier'[c], op'[c] \in {"verify", "reset"}, op'[d] = op'[c]
        PROVE  token'[c] # token'[d]
    <3>1. used[token[d]]
      BY <1>i, <1>o, <2>1, <2>5 DEF AnsweredUsed
    <3> QED
      BY <1>o, <2>1, <2>5, <3>1 DEF Begins
  <2>6. LinkWorksOnce'
    BY <1>i, <1>o, <2>2, <2>3, <2>5 DEF LinkWorksOnce
  <2> QED
    BY <2>4, <2>6
<1>5. AnsweredUsed' /\ VerifiedLasts' /\ PasswordLasts'
  BY <1>i, <1>o, <1>u DEF AnsweredUsed, VerifiedLasts, PasswordLasts, Updated, Begins
<1>6. VerifiedByLink' /\ UsedMeansDone'
  <2>1. ASSUME NEW v \in Call, op[v] # "none"
        PROVE  op'[v] = op[v] /\ pc'[v] = pc[v] /\ token'[v] = token[v]
    BY <1>o, <1>d, <2>1
  <2>2. VerifiedByLink'
    BY <1>i, <1>u, <2>1 DEF VerifiedByLink, Updated
  <2>3. UsedMeansDone'
    BY <1>i, <1>u, <2>1 DEF UsedMeansDone, Updated, GaveWay, BetweenLinks
  <2> QED
    BY <2>2, <2>3
<1>7. OnlyOwnersSignIn'
  <2>1. ASSUME NEW v \in Call, op[v] = "verify"
        PROVE  op'[v] = "verify" /\ pc'[v] = pc[v]
    BY <1>o, <1>d, <2>1
  <2>2. \A d \in Call : d # c /\ op'[d] \in {"login", "google"} /\ pc'[d] \in {"signIn", "ok"} =>
           \/ account'.provider = "google"
           \/ op'[d] = "login" /\ \E v \in Call : op'[v] = "verify" /\ Updated(v)'
    BY <1>i, <1>o, <1>u, <2>1 DEF OnlyOwnersSignIn, Updated
  <2>3. pc'[c] \in {"signIn", "ok"} =>
           \/ account'.provider = "google"
           \/ op'[c] = "login" /\ \E v \in Call : op'[v] = "verify" /\ Updated(v)'
    BY <1>i, <1>u, <2>1 DEF Begins, VerifiedByLink, Updated
  <2> QED
    BY <2>2, <2>3 DEF OnlyOwnersSignIn
<1> QED
  BY <1>1, <1>2, <1>3, <1>4, <1>5, <1>6, <1>7 DEF AccountInv

-----------------------------------------------------------------------------
\* update() of a user writes one column: the provider stays, a verified
\* address stays verified, and only a reset changes the password.
LEMMA UpdateWritesOne ==
  ASSUME AccountInv, NEW c \in Call, UpdateUser(c)
  PROVE  /\ account # NoAccount /\ account' \in Account
         /\ account'.provider = account.provider
         /\ account'.verified = (account.verified \/ op[c] = "verify")
         /\ account'.password = IF op[c] = "verify" THEN account.password ELSE c
<1>1. account # NoAccount /\ account \in Account
  BY DEF AccountInv, TypeOK, AccountThere, UpdateUser, At
<1>2. account' = IF op[c] = "verify" THEN [account EXCEPT !.verified = TRUE]
                                     ELSE [account EXCEPT !.password = c]
  BY DEF UpdateUser, NamedColumn, With
<1>3. CASE account \in [provider : {"local"}, verified : BOOLEAN, password : Password]
  <2>1. account' \in [provider : {"local"}, verified : BOOLEAN, password : Password]
    BY <1>2, <1>3 DEF Password
  <2> QED
    BY <1>1, <1>2, <1>3, <2>1 DEF Account
<1>4. CASE account \in [provider : {"google"}, verified : {TRUE},
                        password : Password \cup {NoPassword}]
  <2>1. account' \in [provider : {"google"}, verified : {TRUE},
                      password : Password \cup {NoPassword}]
    BY <1>2, <1>4 DEF Password
  <2> QED
    BY <1>1, <1>2, <1>4, <2>1 DEF Account
<1> QED
  BY <1>1, <1>3, <1>4 DEF Account

\* What createUser inserts.
LEMMA NewAccountType ==
  ASSUME NEW c \in Call
  PROVE  /\ Local(c, FALSE) \in Account /\ Google \in Account
         /\ Local(c, FALSE) # NoAccount /\ Google # NoAccount
<1>1. Local(c, FALSE) \in [provider : {"local"}, verified : BOOLEAN, password : Password]
  BY DEF Local, Password
<1>2. Google \in [provider : {"google"}, verified : {TRUE}, password : Password \cup {NoPassword}]
  BY DEF Google
<1> QED
  BY <1>1, <1>2, NoAccountAssumption DEF Account

\* A statement of a call moves that call on, and changes no other.
LEMMA StatementMoves ==
  ASSUME AccountInv, NEW c \in Call, Perform(c)
  PROVE  /\ TypeOK'
         /\ CallsFit'
         /\ op' = op /\ earlier' = earlier
         /\ pc[c] \notin {"unused", "ok", "failed"}
         /\ \A d \in Call : d # c => pc'[d] = pc[d] /\ token'[d] = token[d]
         /\ pc[c] # "saveToken" => token'[c] = token[c]
<1>t. TypeOK /\ CallsFit /\ AccountThere /\ LinksFit
  BY DEF AccountInv
<1>1. CASE CreateUser(c)
  <2>1. /\ pc[c] = "createUser" /\ op[c] \in {"register", "google"}
        /\ UNCHANGED <<op, alive, loaded, earlier, tokenVars, token>>
    BY <1>t, <1>1 DEF CreateUser, At, Goto, CallsFit, CallFits
  <2>2. CASE EmailFree
    <3>1. /\ account' \in Account
          /\ pc' = [pc EXCEPT ![c] = IF op[c] = "register" THEN "saveToken" ELSE "signIn"]
      BY <1>1, <2>2, NewAccountType DEF CreateUser, Goto
    <3> QED
      BY <1>t, <2>1, <3>1 DEF TypeOK, CallsFit, CallFits, tokenVars
  <2>3. CASE ~EmailFree
    <3>1. account' = account /\ pc' = [pc EXCEPT ![c] = "failed"]
      BY <1>1, <2>3 DEF CreateUser, Goto
    <3> QED
      BY <1>t, <2>1, <3>1 DEF TypeOK, CallsFit, CallFits, tokenVars
  <2> QED
    BY <2>2, <2>3
<1>2. CASE UseUp(c)
  <2>1. usedUp' \subseteq Call \X Token
    BY <1>t, <1>2 DEF UseUp, Pending, TypeOK
  <2>2. /\ pc[c] = "useUp" /\ pc' = [pc EXCEPT ![c] = "saveToken"] /\ op[c] = "resend"
        /\ UNCHANGED <<op, alive, loaded, earlier, account, kind, stored, expired, mailed,
                       token>>
    BY <1>t, <1>2 DEF UseUp, At, Goto, CallsFit, CallFits
  <2>3. CallsFit'
    BY <1>t, <2>2 DEF TypeOK, CallsFit, CallFits
  <2>4. used' \in [Token -> BOOLEAN]
    BY <1>t, <1>2 DEF UseUp, TypeOK
  <2>5. TypeOK'
    BY <1>t, <2>1, <2>2, <2>4 DEF TypeOK
  <2> QED
    BY <1>t, <2>2, <2>3, <2>5 DEF TypeOK
<1>3. CASE SendMail(c)
  <2>1. /\ pc[c] = "sendMail" /\ pc' = [pc EXCEPT ![c] = "ok"]
        /\ op[c] \in {"register", "resend", "forgot"}
        /\ UNCHANGED <<op, alive, loaded, earlier, account, kind, stored, used, expired,
                       usedUp, token>>
    BY <1>t, <1>3 DEF SendMail, At, Goto, CallsFit, CallFits
  <2>2. CallsFit'
    BY <1>t, <2>1 DEF TypeOK, CallsFit, CallFits
  <2>3. mailed' \in [Token -> BOOLEAN]
    BY <1>t, <1>3 DEF SendMail, TypeOK
  <2>4. TypeOK'
    BY <1>t, <2>1, <2>3 DEF TypeOK
  <2> QED
    BY <1>t, <2>1, <2>2, <2>4 DEF TypeOK
<1>4. CASE UpdateUser(c)
  <2>1. account' \in Account
    BY <1>4, UpdateWritesOne
  <2>2. /\ pc[c] = "update" /\ pc' = [pc EXCEPT ![c] = "markUsed"]
        /\ op[c] \in {"verify", "reset"}
        /\ UNCHANGED <<op, alive, loaded, earlier, tokenVars, token>>
    BY <1>t, <1>4, WriteOrder DEF UpdateUser, At, Goto, CallsFit, CallFits
  <2>3. CallsFit'
    BY <1>t, <2>2 DEF TypeOK, CallsFit, CallFits
  <2>4. TypeOK'
    BY <1>t, <2>1, <2>2 DEF TypeOK, tokenVars
  <2> QED
    BY <1>t, <2>2, <2>3, <2>4 DEF TypeOK
<1>5. CASE MarkUsed(c)
  <2>1. /\ pc[c] = "markUsed" /\ pc' = [pc EXCEPT ![c] = "ok"]
        /\ op[c] \in {"verify", "reset"}
        /\ UNCHANGED <<op, alive, loaded, earlier, account, kind, expired, mailed, usedUp,
                       token>>
    BY <1>t, <1>5, WriteOrder DEF MarkUsed, At, Goto, CallsFit, CallFits
  <2>2. CallsFit'
    BY <1>t, <2>1 DEF TypeOK, CallsFit, CallFits
  <2>3. stored' \in [Token -> BOOLEAN] /\ used' \in [Token -> BOOLEAN]
    <3>1. /\ stored' = [stored EXCEPT ![token[c]] = TRUE]
          /\ used' = [used EXCEPT ![token[c]] = TRUE]
      BY <1>5 DEF MarkUsed, Flagged
    <3> QED
      BY <1>t, <3>1 DEF TypeOK
  <2>4. TypeOK'
    BY <1>t, <2>1, <2>3 DEF TypeOK
  <2> QED
    BY <1>t, <2>1, <2>2, <2>4 DEF TypeOK
<1>6. CASE SignIn(c)
  <2>1. /\ pc[c] = "signIn" /\ pc' = [pc EXCEPT ![c] = "ok"]
        /\ op[c] \in {"google", "login"}
        /\ UNCHANGED <<op, alive, loaded, earlier, account, tokenVars, token>>
    BY <1>t, <1>6 DEF SignIn, At, Goto, CallsFit, CallFits
  <2>2. CallsFit'
    BY <1>t, <2>1 DEF TypeOK, CallsFit, CallFits
  <2>3. TypeOK'
    BY <1>t, <2>1 DEF TypeOK, tokenVars
  <2> QED
    BY <1>t, <2>1, <2>2, <2>3 DEF TypeOK
<1>7. ASSUME NEW t \in Token, SaveToken(c, t)
      PROVE  /\ TypeOK'
             /\ CallsFit'
             /\ op' = op /\ earlier' = earlier
             /\ pc[c] \notin {"unused", "ok", "failed"}
             /\ \A d \in Call : d # c => pc'[d] = pc[d] /\ token'[d] = token[d]
             /\ pc[c] # "saveToken" => token'[c] = token[c]
  <2>1. /\ pc[c] = "saveToken" /\ pc' = [pc EXCEPT ![c] = "sendMail"]
        /\ op[c] \in {"register", "resend", "forgot"}
        /\ token' = [token EXCEPT ![c] = t]
        /\ UNCHANGED <<op, alive, loaded, earlier, account, used, expired, mailed, usedUp>>
    BY <1>t, <1>7 DEF SaveToken, At, Goto, CallsFit, CallFits
  <2>2. CallsFit'
    BY <1>t, <2>1 DEF TypeOK, CallsFit, CallFits
  <2>3. /\ kind' \in [Token -> {"none", "verification", "reset"}]
        /\ stored' \in [Token -> BOOLEAN]
    BY <1>t, <1>7 DEF SaveToken, TypeOK
  <2>4. TypeOK'
    BY <1>t, <2>1, <2>3 DEF TypeOK
  <2> QED
    BY <1>t, <2>1, <2>2, <2>4 DEF TypeOK
<1> QED
  BY <1>1, <1>2, <1>3, <1>4, <1>5, <1>6, <1>7 DEF Perform

-----------------------------------------------------------------------------
(* What no step takes back, and with it the invariant.                     *)

\* An account stays, from its provider, and stays verified.
AccountLasts ==
  account # NoAccount =>
    /\ account' # NoAccount
    /\ account'.provider = account.provider
    /\ account.verified => account'.verified
LinksLast ==
  \A t \in Token : /\ kind[t] # "none" => kind'[t] = kind[t]
                   /\ used[t] => used'[t] /\ kind[t] # "none"
CallsLast ==
  \A c \in Call : op[c] # "none" =>
    /\ op'[c] = op[c] /\ earlier'[c] = earlier[c]
    /\ pc[c] = "ok" => pc'[c] = "ok"
    /\ op[c] \in {"verify", "reset"} \/ pc[c] = "sendMail" => token'[c] = token[c]
    /\ op[c] \in {"verify", "reset"} /\ Updated(c) => Updated(c)'

\* A statement takes none of it back.
LEMMA StatementLasts ==
  ASSUME AccountInv, NEW c \in Call, Perform(c)
  PROVE  AccountLasts /\ LinksLast /\ CallsLast
<1>t. TypeOK /\ CallsFit /\ AccountThere /\ NothingBeforeIssue /\ LinksFit
  BY DEF AccountInv
<1>m. /\ TypeOK' /\ CallsFit'
      /\ op' = op /\ earlier' = earlier
      /\ pc[c] \notin {"unused", "ok", "failed"}
      /\ \A d \in Call : d # c => pc'[d] = pc[d] /\ token'[d] = token[d]
      /\ pc[c] # "saveToken" => token'[c] = token[c]
  BY StatementMoves
<1>1. AccountLasts
  <2>1. CASE account' = account
    BY <2>1 DEF AccountLasts
  <2>2. CASE account = NoAccount
    BY <2>2 DEF AccountLasts
  <2>3. CASE UpdateUser(c)
    BY <2>3, UpdateWritesOne, NoAccountAssumption DEF AccountLasts
  <2> QED
    BY <2>1, <2>2, <2>3
       DEF Perform, CreateUser, EmailFree, UseUp, SendMail, MarkUsed, SignIn, SaveToken
<1>2. LinksLast
  <2>1. CASE UNCHANGED <<kind, used>>
    BY <1>t, <2>1 DEF LinksLast, NothingBeforeIssue
  <2>2. CASE UseUp(c)
    BY <1>t, <2>2 DEF UseUp, Pending, LinksLast, NothingBeforeIssue, TypeOK
  <2>3. CASE MarkUsed(c)
    <3>1. used' = [used EXCEPT ![token[c]] = TRUE] /\ kind' = kind
      BY <2>3 DEF MarkUsed, Flagged
    <3> QED
      BY <1>t, <3>1 DEF LinksLast, NothingBeforeIssue, TypeOK
  <2>4. ASSUME NEW t \in Token, SaveToken(c, t)
        PROVE  LinksLast
    <3>1. /\ kind[t] = "none" /\ used' = used
          /\ kind' = [kind EXCEPT ![t] = IF op[c] = "forgot" THEN "reset" ELSE "verification"]
      BY <2>4 DEF SaveToken
    <3> QED
      BY <1>t, <3>1 DEF LinksLast, NothingBeforeIssue, TypeOK
  <2> QED
    BY <2>1, <2>2, <2>3, <2>4
       DEF Perform, CreateUser, SendMail, UpdateUser, SignIn, tokenVars
<1>3. CallsLast
  <2>1. ASSUME NEW d \in Call, d # c
        PROVE  pc'[d] = pc[d] /\ token'[d] = token[d]
    BY <1>m, <2>1
  <2>2. op[c] \in {"verify", "reset"} => token'[c] = token[c]
    BY <1>t, <1>m DEF CallsFit, CallFits
  <2>3. op[c] \in {"verify", "reset"} /\ Updated(c) => Updated(c)'
    <3>1. CASE MarkUsed(c)
      BY <1>t, <3>1, WriteOrder DEF MarkUsed, Goto, Updated, TypeOK
    <3>2. CASE pc[c] # "markUsed"
      BY <1>m, <3>2 DEF Updated
    <3> QED
      BY <3>1, <3>2
         DEF Perform, CreateUser, UseUp, SendMail, UpdateUser, SignIn, SaveToken, At
  <2> QED
    BY <1>m, <2>1, <2>2, <2>3 DEF CallsLast, Updated
<1> QED
  BY <1>1, <1>2, <1>3

\* No step takes any of it back.
LEMMA NothingTakenBack ==
  ASSUME AccountInv, [Next]_vars
  PROVE  AccountLasts /\ LinksLast /\ CallsLast
<1>t. TypeOK /\ CallsFit /\ NothingBeforeIssue
  BY DEF AccountInv
<1>1. ASSUME NEW c \in Call, Receive(c)
      PROVE  AccountLasts /\ LinksLast /\ CallsLast
  <2>1. Begins(c)
    BY <1>1, ReceiveBegins
  <2>2. AccountLasts /\ LinksLast
    BY <1>t, <2>1 DEF Begins, tokenVars, AccountLasts, LinksLast, NothingBeforeIssue
  <2>3. CallsLast
    BY <2>1 DEF Begins, CallsLast, Updated
  <2> QED
    BY <2>2, <2>3
<1>2. ASSUME NEW c \in Call, Perform(c)
      PROVE  AccountLasts /\ LinksLast /\ CallsLast
  BY <1>2, StatementLasts
<1>3. CASE UNCHANGED <<account, kind, used, op, pc, token, earlier>>
  BY <1>t, <1>3 DEF AccountLasts, LinksLast, CallsLast, NothingBeforeIssue, Updated
<1> QED
  BY <1>1, <1>2, <1>3
     DEF Next, Stop, Expire, CleanupExpiredTokens, vars, tokenVars, callVars

\* What holds of an answered or updating call, of a link that was used and of
\* a verified address survives every step that updates and answers nothing.
LEMMA OldFactsLast ==
  ASSUME AccountInv, [Next]_vars
  PROVE  /\ \A d \in Call : op[d] = "verify" /\ Updated(d) => account'.verified
         /\ account # NoAccount /\ account.provider = "local" /\ account.verified =>
              \E v \in Call : op'[v] = "verify" /\ Updated(v)'
         /\ \A c \in Call : op[c] \in {"login", "google"} /\ pc[c] \in {"signIn", "ok"} =>
              \/ account'.provider = "google"
              \/ op[c] = "login" /\ \E v \in Call : op'[v] = "verify" /\ Updated(v)'
<1>i. /\ CallsFit /\ AccountThere /\ VerifiedLasts /\ VerifiedByLink /\ OnlyOwnersSignIn
  BY DEF AccountInv
<1>l. AccountLasts /\ CallsLast
  BY NothingTakenBack
<1>v. \A v \in Call : op[v] = "verify" /\ Updated(v) => op'[v] = "verify" /\ Updated(v)'
  BY <1>l DEF CallsLast
<1>1. \A d \in Call : op[d] = "verify" /\ Updated(d) => account'.verified
  <2>1. \A d \in Call : op[d] = "verify" /\ Updated(d) => account # NoAccount /\ account.verified
    BY <1>i DEF AccountThere, VerifiedLasts, Updated
  <2> QED
    BY <1>l, <2>1 DEF AccountLasts
<1>2. \A c \in Call : pc[c] \in {"signIn", "ok"} => account'.provider = account.provider
  BY <1>i, <1>l DEF AccountThere, AccountLasts
<1> QED
  BY <1>i, <1>v, <1>1, <1>2 DEF VerifiedByLink, OnlyOwnersSignIn

\* A statement of a call keeps the invariant.
LEMMA StatementStep ==
  ASSUME AccountInv, NEW c \in Call, Perform(c), [Next]_vars
  PROVE  AccountInv'
<1>i. /\ TypeOK /\ CallsFit /\ AccountThere /\ NothingBeforeIssue /\ LinksFit
      /\ IssuedInOrder /\ VerificationsStay /\ EarlierAnswered /\ AnsweredUsed /\ VerifiedLasts /\ PasswordLasts
      /\ VerifiedByLink /\ UsedMeansDone /\ LinkWorksOnce /\ OnlyOwnersSignIn
  BY DEF AccountInv
<1>m. /\ TypeOK' /\ CallsFit'
      /\ op' = op /\ earlier' = earlier
      /\ pc[c] \notin {"unused", "ok", "failed"}
      /\ \A d \in Call : d # c => pc'[d] = pc[d] /\ token'[d] = token[d]
      /\ pc[c] # "saveToken" => token'[c] = token[c]
  BY StatementMoves
<1>l. AccountLasts /\ LinksLast /\ CallsLast
  BY StatementLasts
<1>o. /\ \A d \in Call : op[d] = "verify" /\ Updated(d) => account'.verified
      /\ account # NoAccount /\ account.provider = "local" /\ account.verified =>
           \E v \in Call : op'[v] = "verify" /\ Updated(v)'
      /\ \A d \in Call : op[d] \in {"login", "google"} /\ pc[d] \in {"signIn", "ok"} =>
           \/ account'.provider = "google"
           \/ op[d] = "login" /\ \E v \in Call : op'[v] = "verify" /\ Updated(v)'
  BY OldFactsLast
<1>k. \A d \in Call : op[d] \in {"verify", "reset"} => token'[d] = token[d]
  BY <1>m, <1>i DEF CallsFit, CallFits
<1>1. AccountThere'
  <2>1. pc[c] = "createUser" => pc'[c] = "failed" \/ account' # NoAccount
    BY <1>i, NewAccountType
       DEF TypeOK, Perform, CreateUser, At, Goto, UseUp, SendMail, UpdateUser, MarkUsed,
           SignIn, SaveToken
  <2>2. \A t \in Token : kind'[t] # "none" => kind[t] # "none" \/ pc[c] = "saveToken"
    BY DEF Perform, CreateUser, UseUp, SendMail, UpdateUser, MarkUsed, SignIn, SaveToken,
           At, tokenVars
  <2> QED
    BY <1>i, <1>m, <1>l, <2>1, <2>2 DEF AccountThere, AccountLasts
<1>2. NothingBeforeIssue' /\ LinksFit'
  <2>1. ASSUME NEW t \in Token, SaveToken(c, t)
        PROVE  NothingBeforeIssue' /\ LinksFit'
    <3>1. /\ kind[t] = "none" /\ kind' = [kind EXCEPT ![t] =
                IF op[c] = "forgot" THEN "reset" ELSE "verification"]
          /\ stored' = [stored EXCEPT ![t] = TRUE] /\ token' = [token EXCEPT ![c] = t]
          /\ pc[c] = "saveToken" /\ pc' = [pc EXCEPT ![c] = "sendMail"]
          /\ UNCHANGED <<used, mailed>>
      BY <2>1 DEF SaveToken, Goto, At
    <3>2. kind'[t] # "none"
      BY <1>i, <3>1 DEF TypeOK
    <3>3. NothingBeforeIssue'
      BY <1>i, <3>1, <3>2 DEF NothingBeforeIssue, TypeOK
    <3>4. op[c] \notin {"verify", "reset"}
      BY <1>i, <3>1 DEF CallsFit, CallFits
    <3> QED
      BY <1>i, <1>m, <1>l, <3>1, <3>2, <3>3, <3>4 DEF LinksFit, LinksLast, TypeOK
  <2>2. CASE \A t \in Token : ~SaveToken(c, t)
    <3>1. kind' = kind /\ token' = token
      BY <2>2 DEF Perform, CreateUser, UseUp, SendMail, UpdateUser, MarkUsed, SignIn, tokenVars
    <3>2. /\ pc'[c] \notin {"createUser", "useUp", "sendMail"}
          /\ pc'[c] = "saveToken" => token[c] = NoToken
      <4>1. CASE CreateUser(c)
        <5>1. op[c] \in {"register", "google"} /\ token[c] = NoToken
          BY <1>i, <4>1 DEF CreateUser, At, CallsFit, CallFits, LinksFit
        <5> QED
          BY <1>i, <4>1, <5>1 DEF CreateUser, At, Goto, TypeOK
      <4>2. CASE UseUp(c)
        BY <1>i, <4>2 DEF UseUp, At, Goto, TypeOK, LinksFit
      <4>3. CASE pc'[c] \in {"ok", "markUsed"}
        BY <4>3
      <4> QED
        BY <1>i, <2>2, <4>1, <4>2, <4>3, WriteOrder
           DEF Perform, SendMail, UpdateUser, MarkUsed, SignIn, Goto, TypeOK
    <3>3. LinksFit'
      BY <1>i, <1>m, <3>1, <3>2 DEF LinksFit
    <3>4. \A t \in Token : kind[t] = "none" => ~stored'[t] /\ ~used'[t] /\ ~mailed'[t]
      <4>1. CASE UNCHANGED <<stored, used, mailed>>
        BY <1>i, <4>1 DEF NothingBeforeIssue
      <4>2. CASE UseUp(c)
        BY <1>i, <4>2 DEF UseUp, Pending, NothingBeforeIssue
      <4>3. CASE SendMail(c)
        <5>1. token[c] \in Token /\ kind[token[c]] # "none"
          BY <1>i, <4>3 DEF SendMail, At, LinksFit
        <5> QED
          BY <1>i, <4>3, <5>1 DEF SendMail, TypeOK, NothingBeforeIssue
      <4>4. CASE MarkUsed(c)
        <5>1. op[c] \in {"verify", "reset"}
          BY <1>i, <4>4 DEF MarkUsed, At, CallsFit, CallFits
        <5>2. token[c] \in Token /\ kind[token[c]] # "none"
          BY <1>i, <5>1 DEF LinksFit
        <5> QED
          BY <1>i, <4>4, <5>2 DEF MarkUsed, TypeOK, NothingBeforeIssue
      <4> QED
        BY <2>2, <4>1, <4>2, <4>3, <4>4 DEF Perform, CreateUser, UpdateUser, SignIn, tokenVars
    <3> QED
      BY <3>1, <3>3, <3>4 DEF NothingBeforeIssue
  <2> QED
    BY <2>1, <2>2
<1>3. EarlierAnswered' /\ LinkWorksOnce'
  <2>1. \A d \in Call : earlier[d] \subseteq Call
    BY <1>i DEF TypeOK
  <2> QED
    BY <1>i, <1>m, <1>k, <2>1 DEF EarlierAnswered, LinkWorksOnce
<1>4. AnsweredUsed'
  <2>1. ASSUME op[c] \in {"verify", "reset"}, pc'[c] = "ok"
        PROVE  used'[token[c]]
    <3>1. MarkUsed(c)
      BY <1>i, <1>m, <2>1, WriteOrder
         DEF Perform, CreateUser, UseUp, SendMail, UpdateUser, SignIn, SaveToken, At, Goto,
             CallsFit, CallFits, TypeOK
    <3>2. token[c] \in Token
      BY <1>i, <2>1 DEF LinksFit
    <3> QED
      BY <1>i, <3>1, <3>2 DEF MarkUsed, Flagged, TypeOK
  <2> QED
    BY <1>i, <1>m, <1>k, <1>l, <2>1 DEF AnsweredUsed, LinksLast, LinksFit
<1>5. VerifiedLasts'
  <2>1. op[c] = "verify" /\ Updated(c)' => Updated(c) \/ UpdateUser(c)
    BY <1>i, <1>m
       DEF Perform, CreateUser, UseUp, SendMail, MarkUsed, SignIn, SaveToken, At, Updated,
           CallsFit, CallFits
  <2>2. op[c] = "verify" /\ UpdateUser(c) => account'.verified
    BY UpdateWritesOne
  <2> QED
    BY <1>m, <1>o, <2>1, <2>2 DEF VerifiedLasts, Updated
<1>6. PasswordLasts'
  <2>1. CASE UpdateUser(c)
    <3>1. account'.password = IF op[c] = "verify" THEN account.password ELSE c
      BY <2>1, UpdateWritesOne
    <3>2. \A d \in Call : c \notin earlier[d]
      BY <1>i, <1>m DEF EarlierAnswered
    <3>3. ~Updated(c)
      BY <2>1 DEF UpdateUser, At, Updated
    <3> QED
      BY <1>i, <1>m, <3>1, <3>2, <3>3 DEF PasswordLasts, Updated, CallsFit, CallFits
  <2>2. CASE CreateUser(c)
    <3>1. account' = account \/ account = NoAccount
      BY <2>2 DEF CreateUser, EmailFree
    <3>2. op[c] # "reset"
      BY <1>i, <2>2 DEF CreateUser, At, CallsFit, CallFits
    <3> QED
      BY <1>i, <1>m, <3>1, <3>2 DEF PasswordLasts, Updated, AccountThere
  <2>3. CASE account' = account /\ ~UpdateUser(c)
    <3>1. op[c] = "reset" /\ Updated(c)' => Updated(c)
      BY <1>i, <1>m, <2>3
         DEF Perform, CreateUser, UseUp, SendMail, MarkUsed, SignIn, SaveToken, At, Updated,
             CallsFit, CallFits
    <3> QED
      BY <1>i, <1>m, <2>3, <3>1 DEF PasswordLasts, Updated
  <2> QED
    BY <2>1, <2>2, <2>3 DEF Perform, UseUp, SendMail, MarkUsed, SignIn, SaveToken
<1>7. VerifiedByLink'
  <2>1. CASE account' = account
    BY <1>o, <2>1 DEF VerifiedByLink
  <2>2. CASE CreateUser(c)
    BY <1>o, <2>2 DEF CreateUser, EmailFree, VerifiedByLink, Local, Google
  <2>3. CASE UpdateUser(c)
    <3>1. /\ account # NoAccount /\ account'.provider = account.provider
          /\ account'.verified = (account.verified \/ op[c] = "verify")
      BY <2>3, UpdateWritesOne
    <3>2. Updated(c)'
      BY <1>i, <2>3, WriteOrder DEF UpdateUser, Goto, Updated, TypeOK
    <3> QED
      BY <1>m, <1>o, <3>1, <3>2 DEF VerifiedByLink
  <2> QED
    BY <2>1, <2>2, <2>3 DEF Perform, UseUp, SendMail, MarkUsed, SignIn, SaveToken
<1>v. IssuedInOrder' /\ VerificationsStay'
  <2>1. ASSUME NEW t \in Token, SaveToken(c, t)
        PROVE  IssuedInOrder' /\ VerificationsStay'
    <3>1. /\ \A s \in Token : s < t => kind[s] # "none"
          /\ kind[t] = "none" /\ kind'[t] # "none" /\ stored'[t]
          /\ \A s \in Token : s # t => kind'[s] = kind[s] /\ stored'[s] = stored[s]
      BY <1>i, <2>1 DEF SaveToken, TypeOK
    <3> QED
      BY <1>i, <3>1 DEF IssuedInOrder, VerificationsStay
  <2>2. CASE kind' = kind /\ \A t \in Token : stored[t] => stored'[t]
    BY <1>i, <2>2 DEF IssuedInOrder, VerificationsStay
  <2>3. CASE MarkUsed(c)
    <3>1. kind' = kind /\ stored' = [stored EXCEPT ![token[c]] = TRUE]
      BY <2>3 DEF MarkUsed
    <3> QED
      BY <1>i, <2>2, <3>1 DEF TypeOK
  <2> QED
    BY <2>1, <2>2, <2>3 DEF Perform, CreateUser, UseUp, SendMail, UpdateUser, SignIn, tokenVars
<1>8. UsedMeansDone'
  <2>1. usedUp \subseteq usedUp'
    BY DEF Perform, CreateUser, UseUp, SendMail, UpdateUser, MarkUsed, SignIn, SaveToken, tokenVars
  <2>2. ASSUME NEW t \in Token, used[t]
        PROVE  IF kind'[t] = "reset"
               THEN \E d \in Call : op'[d] = "reset" /\ token'[d] = t /\ Updated(d)'
               ELSE account'.verified \/ GaveWay(t)' \/ \E d \in Call : BetweenLinks(d, t)'
    <3>1. kind[t] # "none" /\ kind'[t] = kind[t] /\ account # NoAccount
      BY <1>i, <1>l, <2>2 DEF LinksLast, AccountThere
    <3>2. CASE kind[t] = "reset"
      BY <1>i, <1>l, <2>2, <3>1, <3>2 DEF UsedMeansDone, CallsLast
    <3>3. CASE kind[t] # "reset" /\ account.verified
      BY <1>l, <3>1, <3>3 DEF AccountLasts
    <3>4. GaveWay(t) => GaveWay(t)'
      BY <1>l, <1>v DEF GaveWay, LinksLast, VerificationsStay
    <3>5. ASSUME NEW d \in Call, BetweenLinks(d, t)
          PROVE  GaveWay(t)' \/ BetweenLinks(d, t)'
      <4>1. CASE d # c
        BY <1>m, <2>1, <3>5, <4>1 DEF BetweenLinks
      <4>2. CASE d = c
        <5>1. PICK s \in Token : SaveToken(c, s)
          BY <3>5, <4>2
             DEF BetweenLinks, Perform, CreateUser, UseUp, SendMail, UpdateUser, MarkUsed,
                 SignIn, At
        <5>2. kind[s] = "none" /\ kind'[s] = "verification"
          BY <1>i, <3>5, <4>2, <5>1 DEF SaveToken, BetweenLinks, TypeOK
        <5>3. s > t
          BY <1>i, <3>1, <5>2, NumTokensAssumption DEF IssuedInOrder, Token
        <5> QED
          BY <1>v, <5>2, <5>3 DEF GaveWay, VerificationsStay
      <4> QED
        BY <4>1, <4>2
    <3> QED
      BY <1>i, <2>2, <3>1, <3>2, <3>3, <3>4, <3>5 DEF UsedMeansDone
  <2>3. CASE used' = used
    BY <2>2, <2>3 DEF UsedMeansDone
  <2>4. CASE UseUp(c)
    <3>1. op'[c] = "resend" /\ pc'[c] = "saveToken"
      BY <1>i, <1>m, <2>4 DEF UseUp, At, Goto, CallsFit, CallFits, TypeOK
    <3>2. \A t \in Token : used'[t] =>
            used[t] \/ (kind'[t] = "verification" /\ <<c, t>> \in usedUp')
      BY <2>4 DEF UseUp, Pending
    <3> QED
      BY <2>2, <3>1, <3>2 DEF UsedMeansDone, BetweenLinks
  <2>5. CASE MarkUsed(c)
    <3>1. /\ op[c] \in {"verify", "reset"} /\ token'[c] = token[c] /\ Updated(c)
          /\ used' = [used EXCEPT ![token[c]] = TRUE] /\ account' = account /\ kind' = kind
      BY <1>i, <2>5 DEF MarkUsed, Flagged, At, CallsFit, CallFits, Updated
    <3>2. Updated(c)'
      BY <1>l, <3>1 DEF CallsLast
    <3>3. op[c] = "verify" => account'.verified /\ kind'[token[c]] = "verification"
      BY <1>i, <3>1 DEF VerifiedLasts, LinksFit
    <3>4. op[c] = "reset" => kind'[token[c]] = "reset"
      BY <1>i, <3>1 DEF LinksFit
    <3>5. \A t \in Token : used'[t] => used[t] \/ t = token[c]
      BY <1>i, <3>1 DEF TypeOK
    <3> QED
      BY <1>m, <2>2, <3>1, <3>2, <3>3, <3>4, <3>5 DEF UsedMeansDone
  <2> QED
    BY <2>3, <2>4, <2>5 DEF Perform, CreateUser, SendMail, UpdateUser, SignIn, SaveToken, tokenVars
<1>9. OnlyOwnersSignIn'
  <2>1. ASSUME op[c] \in {"login", "google"}, pc'[c] \in {"signIn", "ok"}
        PROVE  pc[c] = "signIn" \/ account' = Google
    <3>1. op[c] \in {"login", "google"} /\ pc[c] \in {"createUser", "signIn"}
      BY <1>i, <1>m, <2>1 DEF CallsFit, CallFits
    <3>2. CASE CreateUser(c)
      BY <1>i, <2>1, <3>1, <3>2 DEF CreateUser, At, Goto, CallsFit, CallFits, TypeOK
    <3> QED
      BY <3>1, <3>2
         DEF Perform, UseUp, SendMail, UpdateUser, MarkUsed, SaveToken, SignIn, At
  <2>2. Google.provider = "google"
    BY DEF Google
  <2> QED
    BY <1>m, <1>o, <2>1, <2>2 DEF OnlyOwnersSignIn
<1> QED
  BY <1>m, <1>v, <1>1, <1>2, <1>3, <1>4, <1>5, <1>6, <1>7, <1>8, <1>9 DEF AccountInv

\* Every step keeps the invariant.
LEMMA AccountStep == AccountInv /\ [Next]_vars => AccountInv'
<1> SUFFICES ASSUME AccountInv, [Next]_vars
             PROVE  AccountInv'
  OBVIOUS
<1>i. /\ TypeOK /\ CallsFit /\ AccountThere /\ NothingBeforeIssue /\ LinksFit
      /\ IssuedInOrder /\ VerificationsStay /\ EarlierAnswered /\ AnsweredUsed /\ VerifiedLasts /\ PasswordLasts
      /\ VerifiedByLink /\ UsedMeansDone /\ LinkWorksOnce /\ OnlyOwnersSignIn
  BY DEF AccountInv
<1>1. ASSUME NEW c \in Call, Receive(c)
      PROVE  AccountInv'
  BY <1>1, ReceiveBegins, BeginStep
<1>2. ASSUME NEW c \in Call, Perform(c)
      PROVE  AccountInv'
  BY <1>2, StatementStep
<1>3. ASSUME UNCHANGED <<account, kind, used, mailed, usedUp, op, pc, token, earlier>>, TypeOK',
             \A t \in Token : stored'[t] => stored[t],
             \A t \in Token : kind[t] = "verification" /\ stored[t] => stored'[t]
      PROVE  AccountInv'
  <2>1. CallsFit' /\ AccountThere' /\ NothingBeforeIssue' /\ LinksFit' /\ EarlierAnswered'
    BY <1>i, <1>3
       DEF CallsFit, CallFits, AccountThere, NothingBeforeIssue, LinksFit, EarlierAnswered
  <2>0. IssuedInOrder' /\ VerificationsStay'
    BY <1>i, <1>3 DEF IssuedInOrder, VerificationsStay
  <2>2. AnsweredUsed' /\ VerifiedLasts' /\ PasswordLasts' /\ VerifiedByLink'
    BY <1>i, <1>3 DEF AnsweredUsed, VerifiedLasts, PasswordLasts, VerifiedByLink, Updated
  <2>3. UsedMeansDone' /\ LinkWorksOnce' /\ OnlyOwnersSignIn'
    <3>1. UsedMeansDone'
      BY <1>i, <1>3, <2>0
         DEF UsedMeansDone, GaveWay, BetweenLinks, VerificationsStay, Updated
    <3>2. LinkWorksOnce' /\ OnlyOwnersSignIn'
      BY <1>i, <1>3 DEF LinkWorksOnce, OnlyOwnersSignIn, Updated
    <3> QED
      BY <3>1, <3>2
  <2> QED
    BY <1>3, <2>0, <2>1, <2>2, <2>3 DEF AccountInv
<1>4. ASSUME NEW c \in Call, Stop(c)
      PROVE  AccountInv'
  BY <1>i, <1>3, <1>4 DEF Stop, TypeOK, tokenVars
<1>5. ASSUME NEW t \in Token, Expire(t)
      PROVE  AccountInv'
  BY <1>i, <1>3, <1>5 DEF Expire, TypeOK, callVars
<1>6. CASE CleanupExpiredTokens
  BY <1>i, <1>3, <1>6 DEF CleanupExpiredTokens, TypeOK, callVars
<1>7. CASE UNCHANGED vars
  BY <1>i, <1>3, <1>7 DEF vars, TypeOK, callVars, tokenVars
<1> QED
  BY <1>1, <1>2, <1>4, <1>5, <1>6, <1>7 DEF Next

\* After a reset was answered the password is its own or that of a later call.
LEMMA PasswordCurrent == AccountInv => PasswordIsCurrent
BY DEF AccountInv, PasswordLasts, PasswordIsCurrent, Answered, Updated
=============================================================================
