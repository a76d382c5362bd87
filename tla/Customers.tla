----------------------------- MODULE Customers -----------------------------
(***************************************************************************)
(* The account of a customer together with the addresses saved for it:     *)
(* only a user that exists has addresses, and every request on them is     *)
(* made with an access token of that user.                                 *)
(***************************************************************************)
EXTENDS Accounts, Addresses, FiniteSets

CONSTANT MaxRequests  \* bound on the requests of both kinds together

customerVars == <<vars, addressVars>>

Requests ==
  Cardinality({c \in Call : pc[c] # "unused"})
    + Cardinality({e \in Edit : edit[e] # NoEdit})

CustomerInit ==
  /\ Init /\ AddressInit
  /\ account = NoAccount => \A a \in AddressId : saved[a] = "none"

CustomerNext ==
  /\ \/ Next /\ UNCHANGED addressVars
     \/ account # NoAccount /\ AddressNext /\ UNCHANGED vars
  /\ Requests' <= MaxRequests

CustomerSpec == CustomerInit /\ [][CustomerNext]_customerVars

-----------------------------------------------------------------------------
\* The variables of both have their types, and addresses have a user.
CustomerTypeOK ==
  /\ TypeOK
  /\ AddressTypeOK
  /\ account = NoAccount => \A a \in AddressId : saved[a] = "none"
=============================================================================
