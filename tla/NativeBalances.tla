--------------------------- MODULE NativeBalances ---------------------------
(* External: the native balances of pallet_balances, as the pallets use     *)
(* them: Currency::transfer with KeepAlive.                                 *)
EXTENDS Integers

CONSTANT ExistentialDeposit

ASSUME DepositAssumption == ExistentialDeposit \in Nat

\* The sender stays alive, and so does, or becomes, the destination.
CanPay(n, from, to, value) ==
  \/ value = 0 \/ from = to
  \/ /\ n[from] >= value + ExistentialDeposit
     /\ n[to] + value >= ExistentialDeposit

Paid(n, from, to, value) ==
  IF from = to THEN n ELSE [n EXCEPT ![from] = @ - value, ![to] = @ + value]
=============================================================================
