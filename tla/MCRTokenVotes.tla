--------------------------- MODULE MCRTokenVotes ---------------------------
(* Instance of RTokenVotes: relayer accounts are interchangeable.           *)
EXTENDS RTokenVotes, TLC

Symmetry == Permutations(Account)
=============================================================================
