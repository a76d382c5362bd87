-------------------------- MODULE CustomersProofs --------------------------
(***************************************************************************)
(* Proofs about Customers, for every set of calls, addresses and requests  *)
(* and whatever bounds them.  A step is one of the account, of the         *)
(* addresses, or none, so the invariants of AccountsProofs and             *)
(* AddressesProofs hold together; that addresses have a user holds because *)
(* an account stays.                                                       *)
(***************************************************************************)
EXTENDS Customers, AccountsProofs, AddressesProofs

\* Without an account no address is saved.
AddressesHaveUser == account = NoAccount => \A a \in AddressId : saved[a] = "none"

\* The inductive invariant.
CustomerInv == AccountInv /\ AddressInv /\ AddressesHaveUser

\* A step of a customer is, or leaves alone, one of the account and one of the
\* addresses.
LEMMA CustomerSteps ==
  [CustomerNext]_customerVars => [Next]_vars /\ [AddressNext]_addressVars
BY DEF CustomerNext, customerVars

\* The initial states satisfy the invariant.
LEMMA CustomerInvInit == CustomerInit => CustomerInv
BY AccountInvInit, AddressInvInit DEF CustomerInit, CustomerInv, AddressesHaveUser

\* Every step keeps it.
LEMMA CustomerStep == CustomerInv /\ [CustomerNext]_customerVars => CustomerInv'
<1> SUFFICES ASSUME CustomerInv, [CustomerNext]_customerVars
             PROVE  CustomerInv'
  OBVIOUS
<1>1. [Next]_vars /\ [AddressNext]_addressVars
  BY CustomerSteps
<1>2. AccountInv'
  BY <1>1, AccountStep DEF CustomerInv
<1>3. AddressInv'
  BY <1>1, AddressStep DEF CustomerInv
<1>4. AddressesHaveUser'
  <2>1. AccountLasts
    BY <1>1, NothingTakenBack DEF CustomerInv
  <2>2. CASE account # NoAccount
    BY <2>1, <2>2 DEF AccountLasts, AddressesHaveUser
  <2>3. CASE account = NoAccount
    <3>1. UNCHANGED saved
      BY <2>3 DEF CustomerNext, customerVars, addressVars
    <3> QED
      BY <2>3, <3>1 DEF CustomerInv, AddressesHaveUser
  <2> QED
    BY <2>2, <2>3
<1> QED
  BY <1>2, <1>3, <1>4 DEF CustomerInv

-----------------------------------------------------------------------------
\* The invariant holds in every reachable state.
THEOREM CustomerInvariance == CustomerSpec => []CustomerInv
<1>1. CustomerInit => CustomerInv
  BY CustomerInvInit
<1>2. CustomerInv /\ [CustomerNext]_customerVars => CustomerInv'
  BY CustomerStep
<1> QED
  BY <1>1, <1>2, PTL DEF CustomerSpec

\* Every variable has its type, and only a user who exists has addresses.
THEOREM CustomerTypeCorrect == CustomerSpec => []CustomerTypeOK
<1>1. CustomerInv => CustomerTypeOK
  BY DEF CustomerInv, AccountInv, AddressInv, AddressesHaveUser, CustomerTypeOK
<1> QED
  BY <1>1, CustomerInvariance, PTL

\* verifyEmail and resetPassword write the user before they use up the link: no
\* interruption of theirs leaves it used without effect.  A resend uses links up
\* before it stores its own: only that one, until it has, or if it is cut off
\* right there, leaves a link used for nothing.
THEOREM UsedLinksHadEffect == CustomerSpec => []UsedMeansDone
<1>1. CustomerInv => UsedMeansDone
  BY DEF CustomerInv, AccountInv
<1> QED
  BY <1>1, CustomerInvariance, PTL

\* Once a call with a link was answered, no later call succeeds with it,
\* whatever resends, the clean-up and other calls do to its row.
THEOREM LinksWorkOnce == CustomerSpec => []LinkWorksOnce
<1>1. CustomerInv => LinkWorksOnce
  BY DEF CustomerInv, AccountInv
<1> QED
  BY <1>1, CustomerInvariance, PTL

\* update() of a user writes one column: no call brings an older password back
\* after a reset was answered.
THEOREM PasswordsCurrent == CustomerSpec => []PasswordIsCurrent
<1>1. CustomerInv => PasswordIsCurrent
  BY PasswordCurrent DEF CustomerInv
<1> QED
  BY <1>1, CustomerInvariance, PTL

\* login() and googleLogin() let in only who opened a link mailed to the
\* address, or has it at Google.
THEOREM OwnersSignIn == CustomerSpec => []OnlyOwnersSignIn
<1>1. CustomerInv => OnlyOwnersSignIn
  BY DEF CustomerInv, AccountInv
<1> QED
  BY <1>1, CustomerInvariance, PTL

\* First requests that race for an address and updates that overlap never take
\* an account, its provider or its verification back.
THEOREM AccountsKeep == CustomerSpec => AccountKeeps
<1>1. CustomerInv /\ [CustomerNext]_customerVars =>
        [account # NoAccount =>
           /\ account' # NoAccount
           /\ account'.provider = account.provider
           /\ account.verified => account'.verified]_vars
  BY CustomerSteps, NothingTakenBack DEF CustomerInv, AccountLasts
<1> QED
  BY <1>1, CustomerInvariance, PTL DEF CustomerSpec, AccountKeeps

\* Two default addresses are left only by requests that overlapped: the flags
\* are cleared before each default is saved.
THEOREM OneDefault == CustomerSpec => []OneDefaultInTurn
<1>1. CustomerInv => OneDefaultInTurn
  BY DEF CustomerInv, AddressInv
<1> QED
  BY <1>1, CustomerInvariance, PTL

\* A default that was set is lost only by a request that removes or unsets the
\* default, by one that moves it and is between its two statements or was cut
\* off there, or by one that saves an address as plain, as it had read it, that
\* an overlapping request made the default.
THEOREM DefaultsLast == CustomerSpec => []DefaultLasts
<1>1. CustomerInv => DefaultLasts
  BY DEF CustomerInv, AddressInv
<1> QED
  BY <1>1, CustomerInvariance, PTL
=============================================================================
