---------------------------- MODULE MCGovernance -----------------------------
(***************************************************************************)
(* TLC instance of GovernanceRequests: two dashboard requests with one key *)
(* and an SDK client with another.  A feature may be linked to the system  *)
(* that the FRIA is of, to another one or to none.                         *)
(***************************************************************************)
EXTENDS GovernanceRequests, TLC

CONSTANTS s1, s2, sdk

DashboardAndSdk == [s \in {s1, s2, sdk} |-> IF s = sdk THEN "developer" ELSE "dashboard"]
Symmetry == Permutations({s1, s2}) \cup Permutations(Systems)
=============================================================================
