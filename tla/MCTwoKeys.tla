------------------------------ MODULE MCTwoKeys ------------------------------
(***************************************************************************)
(* TLC instance of FeatureRequests: every slot has an API key of its own,  *)
(* as a dashboard and an SDK client of one tenant have.                    *)
(***************************************************************************)
EXTENDS FeatureRequests, TLC

OwnKeys == [s \in Slots |-> s]
Symmetry == Permutations(Slots) \cup Permutations(Fingerprints)
=============================================================================
