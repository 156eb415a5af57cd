-------------------------------- MODULE MCChat --------------------------------
(***************************************************************************)
(* TLC instances of GovernedChat: a tenant whose requests share one API    *)
(* key, and one whose every thread has a key of its own.                   *)
(***************************************************************************)
EXTENDS GovernedChat, TLC

OneKey == [s \in Slots |-> "key"]
OwnKeys == [s \in Slots |-> s]
Symmetry == Permutations(Slots)
=============================================================================
