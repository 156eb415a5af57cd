------------------------------ MODULE MCBilling ------------------------------
(***************************************************************************)
(* TLC instance of StripeBilling: one tenant pays, for a subscription from *)
(* its checkout and for one added in the portal; the other tenant has an   *)
(* account only.                                                           *)
(***************************************************************************)
EXTENDS StripeBilling

CONSTANTS payer, bystander

PaidByPayer == [c \in Customers |-> payer]
OneCustomer == [x \in Subscriptions |-> CHOOSE c \in Customers : TRUE]
=============================================================================
