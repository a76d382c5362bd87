--------------------------- MODULE SessionsProofs ---------------------------
(***************************************************************************)
(* Proofs about Sessions, for every number of devices, tokens and calls.   *)
(* The invariant says what a call may rely on between its statements: the  *)
(* token it rotated is spent, spent tokens stay spent, and the token a     *)
(* device holds is used by no call of another device.                      *)
(***************************************************************************)
EXTENDS Sessions, TLAPS

Spent(t) == row[t] \in {"revoked", "deleted", "orphaned"}

\* A call in progress presents a token that was issued, for a device.
CallsUseIssued ==
  \A c \in Call : pc[c] # "idle" =>
    by[c] \in Device /\ using[c] \in Token /\ row[using[c]] # "none"

\* What was, or is about to be, exchanged is spent.
ParentsSpent == \A t \in Token : parent[t] # NoToken => Spent(parent[t])
RotatedSpent == \A c \in Call : pc[c] = "issue" => Spent(using[c])

\* The token of a device was issued, to it alone.
HeldIssued == \A d \in Device : held[d] # NoToken => row[held[d]] # "none"
HeldByOne ==
  /\ \A d, e \in Device : held[d] = held[e] /\ held[d] # NoToken => d = e
  /\ \A d \in Device, c \in Call :
       pc[c] # "idle" /\ held[d] = using[c] => by[c] = d

\* The inductive invariant.
IInv ==
  /\ TypeOK
  /\ CallsUseIssued
  /\ ParentsSpent
  /\ RotatedSpent
  /\ HeldIssued
  /\ HeldByOne
  /\ SessionsLast

-----------------------------------------------------------------------------
\* The initial states satisfy the invariant.
LEMMA InvInit == Init => IInv
BY NoTokenAssumption, NoDeviceAssumption
   DEF Init, IInv, TypeOK, CallsUseIssued, ParentsSpent, RotatedSpent, HeldIssued,
       HeldByOne, SessionsLast

\* Every step keeps the types.
LEMMA TypeStep == TypeOK /\ [Next]_vars => TypeOK'
<1> SUFFICES ASSUME TypeOK, [Next]_vars
             PROVE  TypeOK'
  OBVIOUS
<1> USE DEF TypeOK, tokenVars, callVars, Finish, Goto, Store
<1>1. ASSUME NEW d \in Device, Logout(d)
      PROVE  TypeOK'
  BY <1>1 DEF Logout
<1>2. ASSUME NEW d \in Device, NEW t \in Token, Login(d, t)
      PROVE  TypeOK'
  BY <1>2 DEF Login
<1>3. ASSUME NEW c \in Call, NEW d \in Device, Send(c, d)
      PROVE  TypeOK'
  BY <1>3 DEF Send
<1>4. ASSUME NEW c \in Call, Find(c)
      PROVE  TypeOK'
  BY <1>4 DEF Find
<1>5. ASSUME NEW c \in Call, RevokeAll(c)
      PROVE  TypeOK'
  BY <1>5 DEF RevokeAll
<1>6. ASSUME NEW c \in Call, Rotate(c)
      PROVE  TypeOK'
  BY <1>6 DEF Rotate, Rotated
<1>7. ASSUME NEW c \in Call, NEW t \in Token, Issue(c, t)
      PROVE  TypeOK'
  BY <1>7 DEF Issue
<1>8. ASSUME NEW c \in Call, Crash(c)
      PROVE  TypeOK'
  BY <1>8 DEF Crash
<1>9. ASSUME NEW t \in Token, Expire(t)
      PROVE  TypeOK'
  BY <1>9 DEF Expire
<1>10. ASSUME CleanupExpiredTokens
       PROVE  TypeOK'
  BY <1>10 DEF CleanupExpiredTokens
<1>11. CASE UNCHANGED vars
  BY <1>11 DEF vars
<1> QED
  BY <1>1, <1>2, <1>3, <1>4, <1>5, <1>6, <1>7, <1>8, <1>9, <1>10, <1>11 DEF Next, Step

\* Whatever happens, spent tokens stay spent and issued ones stay issued; a
\* token becomes valid only when it is issued.
LEMMA RowsStep ==
  ASSUME IInv, [Next]_vars, NEW t \in Token
  PROVE  /\ Spent(t) => Spent(t)'
         /\ row[t] # "none" => row'[t] # "none" /\ parent'[t] = parent[t]
         /\ row'[t] = "valid" => row[t] \in {"none", "valid"}
<1> USE DEF IInv, TypeOK, Spent, tokenVars
<1>1. ASSUME NEW d \in Device, NEW s \in Token, Login(d, s)
      PROVE  /\ row' = [row EXCEPT ![s] = "valid"] /\ row[s] = "none"
             /\ parent' = [parent EXCEPT ![s] = NoToken]
  BY <1>1 DEF Login, Store
<1>2. ASSUME NEW c \in Call, NEW s \in Token, Issue(c, s)
      PROVE  /\ row' = [row EXCEPT ![s] = "valid"] /\ row[s] = "none"
             /\ parent' = [parent EXCEPT ![s] = using[c]]
  BY <1>2 DEF Issue, Store
<1>3. ASSUME NEW c \in Call, Rotate(c)
      PROVE  /\ row' = [row EXCEPT ![using[c]] = Rotated(using[c])]
             /\ row[using[c]] # "none" /\ parent' = parent
  BY <1>3 DEF Rotate, CallsUseIssued
<1>4. ASSUME NEW d \in Device, Logout(d)
      PROVE  /\ Spent(t) => Spent(t)'
             /\ row[t] # "none" => row'[t] # "none" /\ parent'[t] = parent[t]
             /\ row'[t] = "valid" => row[t] \in {"none", "valid"}
  BY <1>4 DEF Logout
<1>5. ASSUME NEW c \in Call, RevokeAll(c)
      PROVE  /\ Spent(t) => Spent(t)'
             /\ row[t] # "none" => row'[t] # "none" /\ parent'[t] = parent[t]
             /\ row'[t] = "valid" => row[t] \in {"none", "valid"}
  BY <1>5 DEF RevokeAll
<1>6. ASSUME CleanupExpiredTokens
      PROVE  /\ Spent(t) => Spent(t)'
             /\ row[t] # "none" => row'[t] # "none" /\ parent'[t] = parent[t]
             /\ row'[t] = "valid" => row[t] \in {"none", "valid"}
  BY <1>6 DEF CleanupExpiredTokens
<1>7. CASE UNCHANGED <<row, parent>>
  BY <1>7
<1> QED
  BY <1>1, <1>2, <1>3, <1>4, <1>5, <1>6, <1>7
     DEF Next, Step, Send, Find, Crash, Expire, Rotated, vars

\* Every step keeps the invariant.
LEMMA InvStep == IInv /\ [Next]_vars => IInv'
<1> SUFFICES ASSUME IInv, [Next]_vars
             PROVE  IInv'
  OBVIOUS
<1>t. TypeOK /\ TypeOK'
  BY TypeStep DEF IInv
<1>r. \A t \in Token :
        /\ Spent(t) => Spent(t)'
        /\ row[t] # "none" => row'[t] # "none" /\ parent'[t] = parent[t]
  BY RowsStep
<1> USE NoTokenAssumption, NoDeviceAssumption
<1>1. ASSUME NEW d \in Device, Logout(d)
      PROVE  IInv'
  <2> USE <1>1 DEF Logout, callVars
  <2>1. held' = [held EXCEPT ![d] = NoToken]
    OBVIOUS
  <2>2. CallsUseIssued' /\ ParentsSpent' /\ RotatedSpent'
    BY <1>t, <1>r DEF IInv, TypeOK, CallsUseIssued, ParentsSpent, RotatedSpent
  <2>3. HeldIssued' /\ HeldByOne'
    BY <1>t, <1>r, <2>1 DEF IInv, TypeOK, CallsUseIssued, HeldIssued, HeldByOne
  <2>4. SessionsLast'
    BY <1>t, <2>1 DEF IInv, TypeOK, SessionsLast, HeldByOne
  <2> QED
    BY <1>t, <2>2, <2>3, <2>4 DEF IInv
<1>2. ASSUME NEW d \in Device, NEW t \in Token, Login(d, t)
      PROVE  IInv'
  <2> USE <1>2 DEF Login, Store, callVars
  <2>1. ParentsSpent' /\ RotatedSpent' /\ CallsUseIssued'
    BY <1>t, <1>r DEF IInv, TypeOK, ParentsSpent, RotatedSpent, CallsUseIssued
  <2>2. HeldIssued' /\ HeldByOne'
    BY <1>t, <1>r DEF IInv, TypeOK, HeldIssued, HeldByOne, CallsUseIssued
  <2>3. SessionsLast'
    BY <1>t DEF IInv, TypeOK, SessionsLast, HeldIssued
  <2> QED
    BY <1>t, <2>1, <2>2, <2>3 DEF IInv
<1>3. ASSUME NEW c \in Call, NEW d \in Device, Send(c, d)
      PROVE  IInv'
  <2> USE <1>3 DEF Send, tokenVars
  <2>1. ParentsSpent' /\ RotatedSpent' /\ CallsUseIssued'
    BY <1>t DEF IInv, TypeOK, ParentsSpent, RotatedSpent, CallsUseIssued, HeldIssued, Spent
  <2>2. HeldIssued' /\ HeldByOne'
    BY <1>t DEF IInv, TypeOK, HeldIssued, HeldByOne
  <2>3. SessionsLast'
    BY <1>t DEF IInv, TypeOK, SessionsLast
  <2> QED
    BY <1>t, <2>1, <2>2, <2>3 DEF IInv
<1>4. ASSUME NEW c \in Call, Find(c)
      PROVE  IInv'
  <2> USE <1>4 DEF Find, Finish, Goto, tokenVars
  <2>1. ParentsSpent' /\ RotatedSpent' /\ CallsUseIssued'
    BY <1>t DEF IInv, TypeOK, ParentsSpent, RotatedSpent, CallsUseIssued, Spent
  <2>2. HeldIssued' /\ HeldByOne'
    BY <1>t DEF IInv, TypeOK, HeldIssued, HeldByOne
  <2>3. SessionsLast'
    BY <1>t DEF IInv, TypeOK, SessionsLast
  <2> QED
    BY <1>t, <2>1, <2>2, <2>3 DEF IInv
<1>5. ASSUME NEW c \in Call, RevokeAll(c)
      PROVE  IInv'
  <2> USE <1>5 DEF RevokeAll, Finish
  <2>1. ParentsSpent' /\ RotatedSpent' /\ CallsUseIssued'
    BY <1>t, <1>r DEF IInv, TypeOK, ParentsSpent, RotatedSpent, CallsUseIssued
  <2>2. HeldIssued' /\ HeldByOne'
    BY <1>t, <1>r DEF IInv, TypeOK, HeldIssued, HeldByOne
  <2>3. SessionsLast'
    BY <1>t DEF SessionsLast
  <2> QED
    BY <1>t, <2>1, <2>2, <2>3 DEF IInv
<1>6. ASSUME NEW c \in Call, Rotate(c)
      PROVE  IInv'
  <2> USE <1>6 DEF Rotate, Goto
  <2>1. ParentsSpent' /\ CallsUseIssued'
    BY <1>t, <1>r DEF IInv, TypeOK, ParentsSpent, CallsUseIssued
  <2>2. RotatedSpent'
    BY <1>t, <1>r DEF IInv, TypeOK, RotatedSpent, CallsUseIssued, Spent, Rotated
  <2>3. HeldIssued' /\ HeldByOne'
    BY <1>t, <1>r DEF IInv, TypeOK, HeldIssued, HeldByOne
  <2>4. SessionsLast'
    BY <1>t DEF IInv, TypeOK, SessionsLast, HeldByOne
  <2> QED
    BY <1>t, <2>1, <2>2, <2>3, <2>4 DEF IInv
<1>7. ASSUME NEW c \in Call, NEW t \in Token, Issue(c, t)
      PROVE  IInv'
  <2> USE <1>7 DEF Issue, Store, Finish
  <2>1. ParentsSpent'
    BY <1>t, <1>r DEF IInv, TypeOK, ParentsSpent, RotatedSpent, CallsUseIssued
  <2>2. RotatedSpent' /\ CallsUseIssued'
    BY <1>t, <1>r DEF IInv, TypeOK, RotatedSpent, CallsUseIssued
  <2>3. HeldIssued' /\ HeldByOne'
    BY <1>t, <1>r DEF IInv, TypeOK, HeldIssued, HeldByOne, CallsUseIssued
  <2>4. SessionsLast'
    BY <1>t DEF IInv, TypeOK, SessionsLast, HeldIssued, HeldByOne, CallsUseIssued
  <2> QED
    BY <1>t, <2>1, <2>2, <2>3, <2>4 DEF IInv
<1>8. ASSUME NEW c \in Call, Crash(c)
      PROVE  IInv'
  <2> USE <1>8 DEF Crash, Finish, tokenVars
  <2>1. ParentsSpent' /\ RotatedSpent' /\ CallsUseIssued'
    BY <1>t DEF IInv, TypeOK, ParentsSpent, RotatedSpent, CallsUseIssued, Spent
  <2>2. HeldIssued' /\ HeldByOne'
    BY <1>t DEF IInv, TypeOK, HeldIssued, HeldByOne
  <2>3. SessionsLast'
    <3>1. by[c] \in Device
      BY DEF IInv, CallsUseIssued
    <3>2. CASE pc[c] = "issue"
      BY <1>t, <3>1, <3>2 DEF IInv, TypeOK, SessionsLast
    <3>3. CASE pc[c] # "issue"
      BY <1>t, <3>3 DEF IInv, TypeOK, SessionsLast
    <3> QED
      BY <3>2, <3>3
  <2> QED
    BY <1>t, <2>1, <2>2, <2>3 DEF IInv
<1>9. ASSUME NEW t \in Token, Expire(t)
      PROVE  IInv'
  <2> USE <1>9 DEF Expire, callVars
  <2>1. SessionsLast'
    BY <1>t DEF IInv, TypeOK, SessionsLast
  <2> QED
    BY <1>t, <2>1 DEF IInv, CallsUseIssued, ParentsSpent, RotatedSpent, HeldIssued,
       HeldByOne, Spent
<1>10. ASSUME CleanupExpiredTokens
       PROVE  IInv'
  <2> USE <1>10 DEF CleanupExpiredTokens, callVars
  <2>1. ParentsSpent' /\ RotatedSpent' /\ CallsUseIssued'
    BY <1>t, <1>r DEF IInv, TypeOK, ParentsSpent, RotatedSpent, CallsUseIssued
  <2>2. HeldIssued' /\ HeldByOne'
    BY <1>t, <1>r DEF IInv, TypeOK, HeldIssued, HeldByOne
  <2>3. SessionsLast'
    BY <1>t DEF IInv, TypeOK, SessionsLast, PastExpiry
  <2> QED
    BY <1>t, <2>1, <2>2, <2>3 DEF IInv
<1>11. CASE UNCHANGED vars
  BY <1>t, <1>11 DEF vars, tokenVars, callVars, IInv, CallsUseIssued, ParentsSpent,
     RotatedSpent, HeldIssued, HeldByOne, SessionsLast, Spent
<1> QED
  BY <1>1, <1>2, <1>3, <1>4, <1>5, <1>6, <1>7, <1>8, <1>9, <1>10, <1>11 DEF Next, Step

-----------------------------------------------------------------------------
(* The theorems.                                                            *)

\* Every reachable state of the sessions is well typed.
THEOREM TypeCorrect == Spec => []TypeOK
<1>1. Init => TypeOK
  BY InvInit DEF IInv
<1> QED
  BY <1>1, TypeStep, PTL DEF Spec

\* Every reachable state satisfies the invariant.
THEOREM Invariance == Spec => []IInv
BY InvInit, InvStep, PTL DEF Spec

\* A token and the token it was exchanged for are never both valid.
THEOREM Generations == Spec => []OneGenerationValid
<1>1. IInv => OneGenerationValid
  BY DEF IInv, ParentsSpent, OneGenerationValid, Spent
<1> QED
  BY <1>1, Invariance, PTL

\* The token of a device stays valid while it may be expected to.
THEOREM SessionsStay == Spec => []SessionsLast
<1>1. IInv => SessionsLast
  BY DEF IInv
<1> QED
  BY <1>1, Invariance, PTL

\* A revoked or deleted token never becomes valid again.
THEOREM Revocation == Spec => RevokedIsFinal
<1>1. ASSUME IInv, [Next]_vars, NEW t \in Token, row[t] \in {"revoked", "deleted", "orphaned"}
      PROVE  row'[t] # "valid"
  BY <1>1, RowsStep
<1>2. IInv /\ [Next]_vars =>
        [\A t \in Token :
           row[t] \in {"revoked", "deleted", "orphaned"} => row'[t] # "valid"]_vars
  BY <1>1
<1> QED
  BY <1>2, Invariance, PTL DEF Spec, RevokedIsFinal
=============================================================================
