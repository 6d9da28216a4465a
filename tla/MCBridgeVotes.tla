--------------------------- MODULE MCBridgeVotes ---------------------------
(* Instance of BridgeVotes: relayer accounts are interchangeable.           *)
EXTENDS BridgeVotes, TLC

Symmetry == Permutations(Account)
=============================================================================
