------------------------------ MODULE Sessions ------------------------------
(***************************************************************************)
(* The sessions of one user (auth.service.ts): login, the exchange of a    *)
(* refresh token for a new one, logout, and the nightly clean-up of the    *)
(* refresh_tokens table.  Users share nothing, so one is enough.           *)
(*                                                                         *)
(* refreshToken runs outside any transaction: the look-up of the stored    *)
(* token, the save that revokes it and the save of its successor are       *)
(* separate steps, and calls with the same token interleave freely.        *)
(* Access tokens, hashes and selectors are left out: a token presented is  *)
(* one the user was given.                                                 *)
(***************************************************************************)
EXTENDS Integers

CONSTANTS
  Device,    \* browsers the user is logged in from
  NumTokens, \* bound on the refresh tokens issued
  Call,      \* calls of refreshToken served at the same time
  NoToken, NoDevice

\* Tokens are numbered as they are issued.
Token == 1 .. NumTokens

ASSUME NumTokensAssumption == NumTokens \in Nat
ASSUME NoTokenAssumption   == NoToken \notin Token
ASSUME NoDeviceAssumption  == NoDevice \notin Device

VARIABLES
  row,       \* of a token: "none" (not issued), "valid", "revoked", "deleted",
             \* or "orphaned": a revoked row without its user
  expired,   \* whether its expires_at has passed
  parent,    \* history: the token it was exchanged for, NoToken for a login
  held,      \* the refresh token a device keeps
  pc,        \* the next step of a call
  by, using, \* the device that made it and the token it presents
  excused    \* history: the device lost a token through no act of its user

tokenVars == <<row, expired, parent>>
callVars  == <<pc, by, using>>
vars == <<tokenVars, callVars, held, excused>>

Init ==
  /\ row = [t \in Token |-> "none"]
  /\ expired = [t \in Token |-> FALSE]
  /\ parent = [t \in Token |-> NoToken]
  /\ held = [d \in Device |-> NoToken]
  /\ pc = [c \in Call |-> "idle"]
  /\ by = [c \in Call |-> NoDevice]
  /\ using = [c \in Call |-> NoToken]
  /\ excused = [d \in Device |-> FALSE]

-----------------------------------------------------------------------------
\* generateTokens: the row of a new token, issued for the token p.
Store(t, p) ==
  /\ row[t] = "none"
  /\ \A s \in Token : s < t => row[s] # "none"
  /\ row' = [row EXCEPT ![t] = "valid"]
  /\ parent' = [parent EXCEPT ![t] = p]

\* With a password or by Google.
Login(d, t) ==
  /\ Store(t, NoToken)
  /\ held' = [held EXCEPT ![d] = t]
  /\ excused' = [excused EXCEPT ![d] = FALSE]
  /\ UNCHANGED <<expired, callVars>>

\* The server revokes the token, unless its signature has expired, and the
\* device forgets it.
Logout(d) ==
  /\ held[d] # NoToken
  /\ row' = [row EXCEPT ![held[d]] =
       IF @ = "valid" /\ ~expired[held[d]] THEN "revoked" ELSE @]
  /\ held' = [held EXCEPT ![d] = NoToken]
  /\ UNCHANGED <<expired, parent, callVars, excused>>

-----------------------------------------------------------------------------
(* refreshToken.                                                           *)

Finish(c) ==
  /\ pc' = [pc EXCEPT ![c] = "idle"]
  /\ by' = [by EXCEPT ![c] = NoDevice]
  /\ using' = [using EXCEPT ![c] = NoToken]

Goto(c, step) == pc' = [pc EXCEPT ![c] = step] /\ UNCHANGED <<by, using>>

\* A device may send its token more than once (two tabs, a retry).  One whose
\* signature has expired is refused at once.
Send(c, d) ==
  /\ pc[c] = "idle"
  /\ held[d] # NoToken
  /\ ~expired[held[d]]
  /\ pc' = [pc EXCEPT ![c] = "find"]
  /\ by' = [by EXCEPT ![c] = d]
  /\ using' = [using EXCEPT ![c] = held[d]]
  /\ UNCHANGED <<tokenVars, held, excused>>

\* The stored token of the user is looked up and checked: unknown or expired,
\* used before, or good.
Find(c) ==
  /\ pc[c] = "find"
  /\ LET t == using[c]
     IN \/ row[t] = "revoked" /\ Goto(c, "revokeAll")
        \/ row[t] = "valid" /\ ~expired[t] /\ Goto(c, "rotate")
        \/ row[t] = "valid" /\ expired[t] /\ Finish(c)
        \/ row[t] \in {"deleted", "orphaned"} /\ Finish(c)
  /\ UNCHANGED <<tokenVars, held, excused>>

\* Reuse detection: every row of the user is revoked.
RevokeAll(c) ==
  /\ pc[c] = "revokeAll"
  /\ row' = [t \in Token |-> IF row[t] = "valid" THEN "revoked" ELSE row[t]]
  /\ excused' = [d \in Device |-> TRUE]
  /\ Finish(c)
  /\ UNCHANGED <<expired, parent, held>>

\* What save makes of the row: it sets is_revoked or, when the row was deleted
\* meanwhile, inserts it again, without the user, which was not loaded.  The
\* others forget the flag or misspell it.
FlagForgotten(t) == IF row[t] = "deleted" THEN "valid" ELSE row[t]
FlagMisspelt(t) == IF row[t] = "valid" THEN "is_revoked" ELSE row[t]
Rotated(t) == IF row[t] \in {"deleted", "orphaned"} THEN "orphaned" ELSE "revoked"

Rotate(c) ==
  /\ pc[c] = "rotate"
  /\ row' = [row EXCEPT ![using[c]] = Rotated(using[c])]
  /\ Goto(c, "issue")
  /\ UNCHANGED <<expired, parent, held, excused>>

\* The successor is stored, and the answer reaches the device or is lost.
Issue(c, t) ==
  /\ pc[c] = "issue"
  /\ Store(t, using[c])
  /\ \/ held' = [held EXCEPT ![by[c]] = t] /\ UNCHANGED excused
     \/ excused' = [excused EXCEPT ![by[c]] = TRUE] /\ UNCHANGED held
  /\ Finish(c)
  /\ UNCHANGED expired

\* A statement throws or the server stops: the call ends where it is.
Crash(c) ==
  /\ pc[c] # "idle"
  /\ excused' = IF pc[c] = "issue" THEN [excused EXCEPT ![by[c]] = TRUE] ELSE excused
  /\ Finish(c)
  /\ UNCHANGED <<tokenVars, held>>

-----------------------------------------------------------------------------
\* All tokens live equally long, so they expire in the order they were issued.
Expire(t) ==
  /\ row[t] # "none"
  /\ ~expired[t]
  /\ \A s \in Token : s < t => expired[s]
  /\ expired' = [expired EXCEPT ![t] = TRUE]
  /\ UNCHANGED <<row, parent, callVars, held, excused>>

\* The rows the clean-up deletes.  The others delete too much or too little.
IssuedEver(t) == row[t] # "none"
UsedUp(t) == expired[t] /\ row[t] = "revoked"
PastExpiry(t) == expired[t]

CleanupExpiredTokens ==
  /\ \E t \in Token : PastExpiry(t) /\ row[t] # "deleted"
  /\ row' = [t \in Token |-> IF PastExpiry(t) THEN "deleted" ELSE row[t]]
  /\ UNCHANGED <<expired, parent, callVars, held, excused>>

-----------------------------------------------------------------------------
Step(c) == Find(c) \/ RevokeAll(c) \/ Rotate(c) \/ \E t \in Token : Issue(c, t)

Next ==
  \/ \E d \in Device : Logout(d) \/ \E t \in Token : Login(d, t)
  \/ \E c \in Call : (\E d \in Device : Send(c, d)) \/ Step(c) \/ Crash(c)
  \/ \E t \in Token : Expire(t)
  \/ CleanupExpiredTokens

Spec == Init /\ [][Next]_vars

\* The clean-up runs every night.
FairSpec == Spec /\ WF_vars(CleanupExpiredTokens)

-----------------------------------------------------------------------------
(* Properties.                                                             *)

\* Every variable has its type.
TypeOK ==
  /\ row \in [Token -> {"none", "valid", "revoked", "deleted", "orphaned"}]
  /\ expired \in [Token -> BOOLEAN]
  /\ parent \in [Token -> Token \cup {NoToken}]
  /\ held \in [Device -> Token \cup {NoToken}]
  /\ pc \in [Call -> {"idle", "find", "revokeAll", "rotate", "issue"}]
  /\ by \in [Call -> Device \cup {NoDevice}]
  /\ using \in [Call -> Token \cup {NoToken}]
  /\ excused \in [Device -> BOOLEAN]

\* A token is valid only after the token it was exchanged for stopped being
\* so, wherever the calls and the clean-up interleave or a call is cut off:
\* two generations of a session are never valid at the same time.
OneGenerationValid ==
  \A t \in Token :
    row[t] = "valid" /\ parent[t] # NoToken => row[parent[t]] # "valid"

\* A token that was revoked or cleaned up never becomes valid again, although
\* a call may save the row it read before ("can no longer be used").
RevokedIsFinal ==
  [][\A t \in Token : row[t] \in {"revoked", "deleted", "orphaned"} => row'[t] # "valid"]_vars

\* Exchanging tokens keeps a user logged in: the token of a device is valid
\* or just being exchanged, until it expires, unless an answer to the device
\* was lost or reuse was detected since it logged in.  What other devices,
\* logouts and the clean-up do in between does not end its session.
SessionsLast ==
  \A d \in Device :
    held[d] # NoToken /\ ~excused[d] /\ ~expired[held[d]] =>
      \/ row[held[d]] = "valid"
      \/ \E c \in Call : by[c] = d /\ using[c] = held[d] /\ pc[c] = "issue"

\* Expired rows disappear for good, although a call that read a row before
\* the clean-up inserts it again.
ExpiredRowsGo ==
  \A t \in Token : <>(expired[t]) => <>[](row[t] = "deleted")

\* User story US-03: "When a refresh token is successfully used, the old
\* refresh token is revoked and can no longer be used".
ExchangedOnce ==
  \A s, t \in Token : parent[s] = parent[t] /\ parent[s] # NoToken => s = t
=============================================================================
