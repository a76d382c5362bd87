---------------------------- MODULE MCCustomers ----------------------------
(* Instances of Customers for TLC.                                         *)
EXTENDS Customers, TLC

Symmetric == Permutations(Call) \cup Permutations(Edit) \cup Permutations(AddressId)

\* To begin with, no address is saved or all are; requests add and remove the
\* rest.
MCInit ==
  /\ CustomerInit
  /\ \/ \A a \in AddressId : saved[a] = "none"
     \/ /\ \A a \in AddressId : saved[a] # "none"
        /\ \E a \in AddressId : saved[a] = "default"

MCSpec == MCInit /\ [][CustomerNext]_customerVars
=============================================================================
