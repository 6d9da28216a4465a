--------------------------- MODULE MCRTokenSeries ---------------------------
(* Three bond records, two of which claim the same deposit, and one chain   *)
(* besides this one.                                                        *)
EXTENDS RTokenSeries

BondIdMC == {"alice", "bob", "carol"}
TxOfMC == [b \in BondIdMC |-> IF b = "carol" THEN "tx2" ELSE "tx1"]

=============================================================================
