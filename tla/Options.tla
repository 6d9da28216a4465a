------------------------------ MODULE Options ------------------------------
(* What a storage map returns for a missing key, and an Option for nothing. *)
CONSTANT None
=============================================================================
