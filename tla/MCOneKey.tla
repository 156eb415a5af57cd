------------------------------- MODULE MCOneKey -------------------------------
(* TLC instance of FeatureRequests: a tenant whose requests all carry one API key. *)
EXTENDS FeatureRequests

OneKey == [s \in Slots |-> "key"]
=============================================================================
