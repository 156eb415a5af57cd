------------------------------ MODULE MCTenant ------------------------------
(***************************************************************************)
(* TLC instance of TenantUsers: two people and the tenant's dashboard key. *)
(***************************************************************************)
EXTENDS TenantUsers, TLC

OneKey == [s \in Slots |-> "dashboard"]
Shipped == [providers |-> {"google", "password"}, allowed |-> {},
            provision |-> TRUE, defaultRole |-> "viewer"]
Restricted == [Shipped EXCEPT !.providers = {"google"}, !.provision = FALSE]
PolicySet == {Shipped, Restricted}
Symmetry == Permutations(Slots) \cup Permutations(Emails)
=============================================================================
